---- MODULE Spec2Model ----
(***************************************************************************)
(* WASDE report parsing (src/src/wasde_functions.py): the five             *)
(* process_<commodity> pipelines and their shared helpers, over a small    *)
(* model of pandas tables; the download of the report files                *)
(* (download_release_files) and the price windows of src/src/eda_utils.py. *)
(*                                                                         *)
(* A table (DataFrame) is a record [cols, rows]: cols is the sequence of   *)
(* column labels, rows the sequence of rows, each a sequence of cells as   *)
(* long as cols.  A cell is a string; NaN is the null cell.  A column      *)
(* label is the sequence of the pieces of its name between underscores     *)
(* ("beginning_stocks" is <<"beginning", "stocks">>), so that building a   *)
(* name with "_" is concatenation and split('_')[0] is the first piece.    *)
(***************************************************************************)
EXTENDS Naturals, Sequences, FiniteSets, TLC

VARIABLES
    pc,            \* position of the process_<commodity> call
    commodity,     \* which process_<commodity> function runs
    wasde_path,    \* file name of the report, as its pieces between underscores
    readable,      \* <<sheet 1 readable, sheet 2 readable>>
    sheet1,        \* rows of the primary sheet as read by read_excel
    sheet2,        \* rows of the secondary sheet (wheat, corn)
    steps,         \* pipeline steps performed so far
    df_raw,        \* primary sheet with the header applied and report_date added
    broken_line,   \* result of find_line / find_line_v2
    blocks,        \* <<current, next, outlook>> stage blocks
    df_long,       \* the long table
    pblocks,       \* <<current, next, outlook>> blocks handed to pivot_df
    wide,          \* <<current, next, outlook>> wide tables
    result,        \* "pending", "None", "tuple" or "raised"
    error,         \* the exception raised, "" when none
    pv_pc,         \* position of a direct call of pivot_df
    pv_df,         \* its argument df
    pv_args,       \* its arguments countries, pivot_cols, commodity, crop_stage
    pv_out,        \* the table it returns
    dl_pc,         \* position of the download_release_files calls
    dl_run,        \* which call runs: the first or the repeated one
    dl_releases,   \* its argument releases
    dl_limit,      \* its argument limit, 0 standing for None
    dl_status,     \* per call, the HTTP status the server gives for each url
    dl_disk,       \* WASDE_FOLDER: the saved files and their contents
    dl_pos,        \* <<release, file>> the loops are at
    dl_downloaded, \* the counter downloaded
    dl_log,        \* what the calls did to which path, in order
    ag_pc,         \* position of a prepare_modeling_data call
    ag_wasde,      \* df_wasde: one row per report
    ag_quotes,     \* df_quotes: one row per daily quote
    ag_out,        \* the records aggregate_prices_by_report_window returns
    lc_pc,         \* which of find_line_v2 and find_line have been called
    lc_df,         \* the grid both are called on
    lc_all,        \* what find_line_v2 returned
    lc_last,       \* what find_line returned
    hp_pc,         \* position of a direct call of one of the helpers
    hp_call,       \* the helper called
    hp_in,         \* the table the caller built, as it was when passed
    hp_df,         \* the caller's table, the object the helper is given
    hp_range,      \* <<min_row, max_row>> of detect_header_start
    hp_out,        \* the table the helper returns
    hp_idx         \* the row index detect_header_start returns

runVars == <<pc, commodity, wasde_path, readable, sheet1, sheet2, steps, df_raw,
             broken_line, blocks, df_long, pblocks, wide, result, error>>
pivVars == <<pv_pc, pv_df, pv_args, pv_out>>
dlVars == <<dl_pc, dl_run, dl_releases, dl_limit, dl_status, dl_disk, dl_pos,
            dl_downloaded, dl_log>>
agVars == <<ag_pc, ag_wasde, ag_quotes, ag_out>>
lcVars == <<lc_pc, lc_df, lc_all, lc_last>>
hpVars == <<hp_pc, hp_call, hp_in, hp_df, hp_range, hp_out, hp_idx>>
auxVars == <<dlVars, agVars, lcVars, hpVars>>
vars == <<runVars, pivVars, auxVars>>

----------------------------------------------------------------------------
(* Strings.  TLC treats a string as an atom, so each string test of the    *)
(* code is the set of the strings of the model's alphabet that pass it.    *)

NaN == "<NaN>"

\* str(x) of a cell: a null cell becomes the string 'nan'
AsStr(cell) == IF cell = NaN THEN "nan" ELSE cell

\* str.strip()
Strip(s) ==
    CASE s = " World " -> "World"
      [] s = " production " -> "production"
      [] OTHER -> s

\* str.lower()
Lower(s) ==
    CASE s = "United States" -> "united states"
      [] s = "China" -> "china"
      [] s = "World" -> "world"
      [] s = " World " -> " world "
      [] s = "Production" -> "production"
      [] s = "Exports" -> "exports"
      [] s = "Beginning\nStocks" -> "beginning\nstocks"
      [] s = "Domestic\nFeed" -> "domestic\nfeed"
      [] s = "Domestic\nFeed 2/" -> "domestic\nfeed 2/"
      [] s = "Domestic\nTotal 2/" -> "domestic\ntotal 2/"
      [] s = "Domestic\nTotal/" -> "domestic\ntotal/"
      [] s = "Domestic\nCrush" -> "domestic\ncrush"
      [] s = "2023/24 Est." -> "2023/24 est."
      [] s = "2024/25 Proj." -> "2024/25 proj."
      [] s = "2024/25\nProj." -> "2024/25\nproj."
      [] s = "MY2024/25" -> "my2024/25"
      [] s = "Est. 3/" -> "est. 3/"
      [] s = "Title" -> "title"
      [] s = "BEGINNING STOCKS" -> "beginning stocks"
      [] OTHER -> s

\* str.replace(' ', '')
NoSpaces(s) ==
    CASE s = "united states" -> "unitedstates"
      [] s = " world " -> "world"
      [] s = "2023/24 est." -> "2023/24est."
      [] s = "2024/25 proj." -> "2024/25proj."
      [] s = "est. 3/" -> "est.3/"
      [] OTHER -> s

\* re.search(r'\b\d{4}\s*/\s*\d{2}(?:\s*Est\.?)?', s, re.IGNORECASE) on the
\* lower-cased, whitespace-collapsed string
HasCropYear(s) == s \in {"2022/23", "2023/24 est.", "2024/25 proj."}

\* str.contains('Est.'): a regular expression, case-sensitive
ContainsEst(s) == s \in {"2023/24 Est.", "Est. 3/"}

\* 'beginning' in val
ContainsBeginning(s) == s \in {"beginning\nstocks", "beginning stocks"}

\* str.contains('nan') / str.contains('filler') on the lower-cased string
ContainsNan(s) == s = "nan"
ContainsFiller(s) == s = "filler"

\* str.contains('None') on the lower-cased string: no lower-cased string has
\* a capital N
ContainsNone(s) == FALSE

----------------------------------------------------------------------------
(* Sequences.                                                              *)

\* the elements of s at the positions in P, in order
Pick(s, P) ==
    LET F[i \in 0..Len(s)] ==
            IF i = 0 THEN <<>>
            ELSE IF i \in P THEN Append(F[i - 1], s[i]) ELSE F[i - 1]
    IN  F[Len(s)]

\* s[a:b] of Python for 0 <= a, with b the exclusive end; positions from 0
Slice(s, a, b) == Pick(s, {i \in 1..Len(s) : a < i /\ i <= b})

\* the elements of s without repetition, in order of first appearance
Unique(s) == Pick(s, {i \in 1..Len(s) : \A j \in 1..(i - 1) : s[j] # s[i]})

Flatten(ss) ==
    LET F[i \in 0..Len(ss)] == IF i = 0 THEN <<>> ELSE F[i - 1] \o ss[i]
    IN  F[Len(ss)]

Elems(s) == {s[i] : i \in 1..Len(s)}

\* a sequence given as a function [i \in 1..n |-> e], written out as a tuple
Tup(f) == SubSeq(f, 1, Len(f))

----------------------------------------------------------------------------
(* Tables.                                                                 *)

EmptyDF == [cols |-> <<>>, rows |-> <<>>]

L_country == <<"country">>
L_report_date == <<"report", "date">>
L_crop_stage == <<"crop", "stage">>
L_commodity == <<"commodity">>
L_production == <<"production">>
L_exports == <<"exports">>
NaNLabel == <<NaN>>

NRows(df) == Len(df.rows)
NCols(df) == Len(df.cols)

\* the positions of the columns labelled l
ColsOf(df, l) == {j \in 1..NCols(df) : df.cols[j] = l}
HasCol(df, l) == ColsOf(df, l) # {}
ColPos(df, l) == CHOOSE j \in ColsOf(df, l) : \A k \in ColsOf(df, l) : j <= k

\* boolean-mask row selection df[mask], df.iloc[a:b]
\* a table whose columns and rows are written out as tuples
AsTable(df) ==
    [cols |-> Tup(df.cols),
     rows |-> Tup([i \in 1..Len(df.rows) |-> Tup(df.rows[i])])]

KeepRows(df, P) == [cols |-> df.cols, rows |-> Pick(df.rows, P)]
RowSlice(df, a, b) == [cols |-> df.cols, rows |-> Slice(df.rows, a, b)]

\* df.loc[:, mask]
KeepCols(df, P) ==
    AsTable([cols |-> Pick(df.cols, P),
             rows |-> [i \in 1..NRows(df) |-> Pick(df.rows[i], P)]])

\* df.drop(columns=[l]): every column with that label
DropCol_Keeps(df, l) == df
DropCol(df, l) == KeepCols(df, (1..NCols(df)) \ ColsOf(df, l))

\* df[l] = v for a scalar v: overwrites the column when it exists, else
\* appends it
SetCol(df, l, v) ==
    AsTable(IF HasCol(df, l)
            THEN [cols |-> df.cols,
                  rows |-> [i \in 1..NRows(df) |->
                              [j \in 1..NCols(df) |->
                                 IF df.cols[j] = l THEN v ELSE df.rows[i][j]]]]
            ELSE [cols |-> Append(df.cols, l),
                  rows |-> [i \in 1..NRows(df) |-> Append(df.rows[i], v)]])

\* df.rename(columns=f)
Rename(df, f) ==
    AsTable([cols |-> [j \in 1..NCols(df) |-> f[df.cols[j]]], rows |-> df.rows])

\* df.dropna(how='all')
DropNaRowsAll(df) ==
    KeepRows(df, {i \in 1..NRows(df) : \E j \in 1..NCols(df) : df.rows[i][j] # NaN})

\* df.dropna()
DropNaRows(df) ==
    KeepRows(df, {i \in 1..NRows(df) : \A j \in 1..NCols(df) : df.rows[i][j] # NaN})

\* df.dropna(axis=1, how='all'): a column with no non-null cell goes, so
\* every column of a table without rows goes
DropNaCols(df) ==
    KeepCols(df, {j \in 1..NCols(df) : \E i \in 1..NRows(df) : df.rows[i][j] # NaN})

\* df.dropna(subset=ls) and df.dropna(subset=ls, how='all'); KeyError when a
\* label of ls is no column
SubsetOK(df, ls) == \A l \in ls : HasCol(df, l)
DropNaSubsetAny(df, ls) ==
    KeepRows(df, {i \in 1..NRows(df) :
                    \A j \in 1..NCols(df) : df.cols[j] \in ls => df.rows[i][j] # NaN})
DropNaSubsetAll(df, ls) ==
    KeepRows(df, {i \in 1..NRows(df) :
                    \E j \in 1..NCols(df) : df.cols[j] \in ls /\ df.rows[i][j] # NaN})

\* df.loc[:, ~df.columns.isna()]
DropNaLabels(df) == KeepCols(df, {j \in 1..NCols(df) : df.cols[j] # NaNLabel})

\* df.iloc[:, 0] = df.iloc[:, 0].shift(1); IndexError without columns
ShiftFirstCol(df) ==
    AsTable([cols |-> df.cols,
             rows |-> [i \in 1..NRows(df) |->
                         [j \in 1..NCols(df) |->
                            IF j = 1
                            THEN (IF i = 1 THEN NaN ELSE df.rows[i - 1][1])
                            ELSE df.rows[i][j]]]])

\* df.iloc[:-1]
DropLastRow(df) == RowSlice(df, 0, NRows(df) - 1)

\* df[l] = df[l].astype(str).str.strip() on the one column labelled l
StrStripCol(df, l) ==
    AsTable([cols |-> df.cols,
             rows |-> [i \in 1..NRows(df) |->
                         [j \in 1..NCols(df) |->
                            IF df.cols[j] = l THEN Strip(AsStr(df.rows[i][j]))
                            ELSE df.rows[i][j]]]])

\* df[l].astype(str).str.lower() of row i
LowerCell(df, i, l) == Lower(AsStr(df.rows[i][ColPos(df, l)]))
\* df[~hit] for a mask hit over the rows
DropRowsWhere(df, hit) == KeepRows(df, {i \in 1..NRows(df) : ~hit[i]})

HasDupCols(df) == \E j, k \in 1..NCols(df) : j < k /\ df.cols[j] = df.cols[k]

\* pd.concat(dfs, ignore_index=True).  The columns are the union of the
\* tables' columns in order of first appearance and a table is reindexed to
\* them unless its columns equal them already; reindexing a table with a
\* repeated label raises InvalidIndexError.
ConcatOK(dfs) ==
    \/ \A i \in 1..Len(dfs) : dfs[i].cols = dfs[1].cols
    \/ \A i \in 1..Len(dfs) : ~HasDupCols(dfs[i])
ConcatRows(dfs) ==
    IF \A i \in 1..Len(dfs) : dfs[i].cols = dfs[1].cols
    THEN [cols |-> dfs[1].cols,
          rows |-> Flatten([i \in 1..Len(dfs) |-> dfs[i].rows])]
    ELSE LET all == Unique(Flatten([i \in 1..Len(dfs) |-> dfs[i].cols]))
             Reindex(df) ==
                 [i \in 1..NRows(df) |->
                    [j \in 1..Len(all) |->
                       IF HasCol(df, all[j]) THEN df.rows[i][ColPos(df, all[j])]
                       ELSE NaN]]
         IN  AsTable([cols |-> all,
                      rows |-> Flatten([i \in 1..Len(dfs) |-> Reindex(dfs[i])])])

\* pd.concat([a, b], axis=1) of tables whose rows are numbered from 0: the
\* rows are aligned by number and the shorter table is filled with NaN
ConcatCols(a, b) ==
    LET n == IF NRows(a) >= NRows(b) THEN NRows(a) ELSE NRows(b)
        Cell(df, i, j) == IF i <= NRows(df) THEN df.rows[i][j] ELSE NaN
    IN  AsTable([cols |-> a.cols \o b.cols,
                 rows |-> [i \in 1..n |->
                             [j \in 1..NCols(a) |-> Cell(a, i, j)]
                               \o [j \in 1..NCols(b) |-> Cell(b, i, j)]]])

\* df[l].unique()
UniqueOf(df, l) == Unique([i \in 1..NRows(df) |-> df.rows[i][ColPos(df, l)]])

----------------------------------------------------------------------------
(* The shared helpers of wasde_functions.py.                               *)

MinRow == 3
MaxRow == 15
FallbackHeader == 7
Raw2Header == 7


\* str.replace('\xa0', ' ') and the collapse of runs of whitespace
Collapse(s) ==
    CASE s = "beginning\nstocks" -> "beginning stocks"
      [] s = "2024/25\nproj." -> "2024/25 proj."
      [] s = " world " -> " world "
      [] OTHER -> s

IsHeaderRow(row) == \E j \in 1..Len(row) : ContainsBeginning(Lower(AsStr(row[j])))
IsCropYearRow(row) == \E j \in 1..Len(row) : HasCropYear(Collapse(Lower(AsStr(row[j]))))

\* detect_header_start(df, min_row, max_row); row indices count from 0.
\* df.iloc[i] raises IndexError for a row past the end of the sheet.
HeaderMatches(rows, lo, hi) ==
    {i \in lo..(hi - 1) : i < Len(rows) /\ IsHeaderRow(rows[i + 1])}
detect_header_raises(rows, lo, hi) ==
    \E i \in lo..(hi - 1) :
        /\ i >= Len(rows)
        /\ \A k \in HeaderMatches(rows, lo, hi) : k > i
detect_header_start(rows, lo, hi) ==
    IF HeaderMatches(rows, lo, hi) # {}
    THEN CHOOSE i \in HeaderMatches(rows, lo, hi) :
             \A k \in HeaderMatches(rows, lo, hi) : i <= k
    ELSE FallbackHeader

\* find_line_v2 with the list built back to front
find_line_v2_Reversed(df) ==
    LET F[i \in 0..NRows(df)] ==
            IF i = 0 THEN <<>>
            ELSE IF IsCropYearRow(df.rows[i]) THEN <<i - 1>> \o F[i - 1]
            ELSE F[i - 1]
    IN  F[NRows(df)]
\* find_line_v2(df): the indices (from 0) of the rows with a crop-year cell
find_line_v2(df) ==
    LET F[i \in 0..NRows(df)] ==
            IF i = 0 THEN <<>>
            ELSE IF IsCropYearRow(df.rows[i]) THEN Append(F[i - 1], i - 1)
            ELSE F[i - 1]
    IN  F[NRows(df)]

\* find_line keeping the first match
find_line_First(df) ==
    LET F[i \in 0..NRows(df)] ==
            IF i = 0 THEN <<>>
            ELSE IF IsCropYearRow(df.rows[i]) /\ F[i - 1] = <<>> THEN <<i - 1>>
            ELSE F[i - 1]
    IN  F[NRows(df)]
\* find_line(df): last_idx, <<>> standing for None and <<i>> for index i
find_line(df) ==
    LET F[i \in 0..NRows(df)] ==
            IF i = 0 THEN <<>>
            ELSE IF IsCropYearRow(df.rows[i]) THEN <<i - 1>>
            ELSE F[i - 1]
    IN  F[NRows(df)]

\* str(col).strip().lower() of a label
CleanLabel(l) ==
    [k \in 1..Len(l) |-> Lower(IF k = 1 \/ k = Len(l) THEN Strip(l[k]) ELSE l[k])]

\* df.columns = pd.Index([...]): the labels of the table passed in are
\* replaced in place, before the returned table is built
clean_columns_arg(df) ==
    AsTable([cols |-> [j \in 1..NCols(df) |-> CleanLabel(df.cols[j])],
             rows |-> df.rows])

\* clean_columns keeping the last of the columns with the same label
clean_columns_KeepLast(df) ==
    LET cl == [j \in 1..NCols(df) |-> CleanLabel(df.cols[j])]
    IN  KeepCols(AsTable([cols |-> cl, rows |-> df.rows]),
                 {j \in 1..NCols(df) : \A k \in (j + 1)..NCols(df) : cl[k] # cl[j]})
\* clean_columns(df): the returned table
clean_columns(df) ==
    LET cl == [j \in 1..NCols(df) |-> CleanLabel(df.cols[j])]
    IN  KeepCols(AsTable([cols |-> cl, rows |-> df.rows]),
                 {j \in 1..NCols(df) : \A k \in 1..(j - 1) : cl[k] # cl[j]})

\* reset_column_names(df)
ResetLabel(l) == IF l \in {L_country, L_report_date} THEN l ELSE <<l[1]>>
reset_column_names(df) ==
    Rename(df, [l \in {df.cols[j] : j \in 1..NCols(df)} |-> ResetLabel(l)])

CommodityTokens(c) ==
    CASE c = "soybean_oil" -> <<"soybean", "oil">>
      [] c = "soybean_meal" -> <<"soybean", "meal">>
      [] OTHER -> <<c>>

\* f"{col.lower()}_{commodity}_{crop_stage}_{country.lower().replace(' ', '')}"
WideLabel(l, c, stage, country) ==
    [k \in 1..Len(l) |-> Lower(l[k])] \o CommodityTokens(c)
        \o <<stage, NoSpaces(Lower(country))>>

\* df[df['country'] == country] ... .head(1): the row kept for a country
MatchRows(df, country) ==
    {i \in 1..NRows(df) : df.rows[i][ColPos(df, L_country)] = country}
HeadRow_Last(df, country) ==
    {i \in MatchRows(df, country) : \A k \in MatchRows(df, country) : i >= k}
HeadRow(df, country) ==
    {i \in MatchRows(df, country) : \A k \in MatchRows(df, country) : i <= k}

\* pivot_df raises KeyError without a country column or, for the first
\* country, without a report_date column
pivot_raises(df, countries) ==
    countries # <<>> /\ (~HasCol(df, L_country) \/ ~HasCol(df, L_report_date))

\* pivot_df with report_date_col taken from the last country of the list
pivot_df_DateFromLast(df, countries, pivot_cols, c, stage) ==
    LET Country(i) == DropCol(KeepRows(df, HeadRow(df, countries[i])), L_country)
        Piece(i) ==
            LET d == DropCol(Country(i), L_report_date)
                Ren == [l \in {d.cols[j] : j \in 1..NCols(d)} |->
                          IF l \in Elems(pivot_cols)
                          THEN WideLabel(l, c, stage, countries[i]) ELSE l]
            IN  Rename(d, Ren)
        Acc[i \in 0..Len(countries)] ==
            IF i = 0 THEN EmptyDF ELSE ConcatCols(Acc[i - 1], Piece(i))
        first == Country(Len(countries))
        report_date_col ==
            [i \in 1..NRows(first) |-> first.rows[i][ColPos(first, L_report_date)]]
        body == DropCol(Acc[Len(countries)], L_report_date)
    IN  IF countries = <<>> THEN EmptyDF
        ELSE AsTable([cols |-> <<L_report_date>> \o body.cols,
                      rows |-> [i \in 1..NRows(body) |->
                                  <<IF i <= Len(report_date_col)
                                    THEN report_date_col[i] ELSE NaN>> \o body.rows[i]]])

\* pivot_df with the report_date column inserted also when no country is given
pivot_df_AlwaysDated(df, countries, pivot_cols, c, stage) ==
    LET Country(i) == DropCol(KeepRows(df, HeadRow(df, countries[i])), L_country)
        Piece(i) ==
            LET d == IF i = 1 THEN Country(i) ELSE DropCol(Country(i), L_report_date)
                Ren == [l \in {d.cols[j] : j \in 1..NCols(d)} |->
                          IF l \in Elems(pivot_cols)
                          THEN WideLabel(l, c, stage, countries[i]) ELSE l]
            IN  Rename(d, Ren)
        Acc[i \in 0..Len(countries)] ==
            IF i = 0 THEN EmptyDF ELSE ConcatCols(Acc[i - 1], Piece(i))
        first == Country(1)
        report_date_col ==
            [i \in 1..NRows(first) |-> first.rows[i][ColPos(first, L_report_date)]]
        body == DropCol(Acc[Len(countries)], L_report_date)
    IN  IF countries = <<>> THEN [cols |-> <<L_report_date>>, rows |-> <<>>]
        ELSE AsTable([cols |-> <<L_report_date>> \o body.cols,
                      rows |-> [i \in 1..NRows(body) |->
                                  <<IF i <= Len(report_date_col)
                                    THEN report_date_col[i] ELSE NaN>> \o body.rows[i]]])

\* pivot_df(df, countries, pivot_cols, commodity, crop_stage)
pivot_df(df, countries, pivot_cols, c, stage) ==
    LET Country(i) == DropCol(KeepRows(df, HeadRow(df, countries[i])), L_country)
        Piece(i) ==
            LET d == IF i = 1 THEN Country(i) ELSE DropCol(Country(i), L_report_date)
                Ren == [l \in {d.cols[j] : j \in 1..NCols(d)} |->
                          IF l \in Elems(pivot_cols)
                          THEN WideLabel(l, c, stage, countries[i]) ELSE l]
            IN  Rename(d, Ren)
        Acc[i \in 0..Len(countries)] ==
            IF i = 0 THEN EmptyDF ELSE ConcatCols(Acc[i - 1], Piece(i))
        first == Country(1)
        report_date_col ==
            [i \in 1..NRows(first) |-> first.rows[i][ColPos(first, L_report_date)]]
        body == DropCol(Acc[Len(countries)], L_report_date)
    IN  IF countries = <<>> THEN EmptyDF
        ELSE AsTable([cols |-> <<L_report_date>> \o body.cols,
                      rows |-> [i \in 1..NRows(body) |->
                                  <<IF i <= Len(report_date_col)
                                    THEN report_date_col[i] ELSE NaN>> \o body.rows[i]]])

----------------------------------------------------------------------------
(* The steps of process_wheat, process_corn, process_soybean,              *)
(* process_soybean_oil and process_soybean_meal.  The three soybean        *)
(* functions are the same code under three names; process_corn is          *)
(* process_wheat without the suffix/reset step and with its own filters.   *)

Commodities == {"wheat", "corn", "soybean", "soybean_oil", "soybean_meal"}
IsSoy(c) == c \in {"soybean", "soybean_oil", "soybean_meal"}
IsGrain(c) == c \in {"wheat", "corn"}

StageCodes == <<"cy", "ny", "oy">>
StageNames == <<"current year", "next year", "outlook year">>

\* filename.split('_')[0]
report_date_of(path) == path[1]

\* df = df.iloc[h:]; header = df.iloc[0]; df = df[1:]; df.columns = header.
\* header = df.iloc[0] raises IndexError when no row is left.
HeaderErr(rows, h) == h >= Len(rows)
ApplyHeader(rows, h) ==
    LET d == Slice(rows, h, Len(rows))
    IN  AsTable([cols |-> [j \in 1..Len(d[1]) |-> <<d[1][j]>>], rows |-> Tail(d)])

\* df[~df.iloc[:, 0].astype(str).str.contains('Est.')].dropna(how='all')
EstFilter(df) ==
    DropNaRowsAll(KeepRows(df, {i \in 1..NRows(df) : ~ContainsEst(AsStr(df.rows[i][1]))}))

L_Production == <<"Production">>
L_Exports == <<"Exports">>

\* the literal part of columns_dict of process_wheat and process_corn
GrainKeys ==
    {<<"Beginning\nStocks">>, <<"Production">>, <<"Imports">>, <<"Domestic\nFeed">>,
     <<"Domestic\nTotal 2/">>, <<"Exports">>, <<"Ending\nStocks">>,
     <<"Domestic\nFeed 2/">>}
\* the literal part of columns_dict of the soybean functions
SoyKeys ==
    {<<"Beginning\nStocks">>, <<"Production">>, <<"Imports">>, <<"Domestic\nCrush">>,
     <<"Domestic\nTotal/">>, <<"Exports">>, <<"Ending\nStocks">>,
     <<"Domestic\nFeed 2/">>}
Canonical(l) ==
    CASE l = <<"Beginning\nStocks">> -> <<"beginning", "stocks">>
      [] l = <<"Production">> -> L_production
      [] l = <<"Imports">> -> <<"imports">>
      [] l = <<"Domestic\nFeed">> -> <<"domestic", "feed">>
      [] l = <<"Domestic\nFeed 2/">> -> <<"domestic", "feed">>
      [] l = <<"Domestic\nCrush">> -> <<"domestic", "crush">>
      [] l = <<"Domestic\nTotal 2/">> -> <<"domestic", "total">>
      [] l = <<"Domestic\nTotal/">> -> <<"domestic", "total">>
      [] l = <<"Exports">> -> L_exports
      [] l = <<"Ending\nStocks">> -> <<"ending", "stocks">>

\* df.rename(columns={df.columns[0]: 'country', <the literal keys>}): a
\* literal key equal to df.columns[0] replaces the 'country' entry
columns_dict(c, first, l) ==
    IF l \in (IF IsSoy(c) THEN SoyKeys ELSE GrainKeys) THEN Canonical(l)
    ELSE IF l = first THEN L_country
    ELSE l
RenameBlock(c, df) ==
    AsTable([cols |-> [j \in 1..NCols(df) |-> columns_dict(c, df.cols[1], df.cols[j])],
             rows |-> df.rows])

(* Locate: header row, report_date, stage boundaries                       *)
LocateErr(rows) ==
    IF detect_header_raises(rows, MinRow, MaxRow) THEN "IndexError"
    ELSE IF HeaderErr(rows, detect_header_start(rows, MinRow, MaxRow)) THEN "IndexError"
    ELSE ""
LocateDF(rows, path) ==
    SetCol(ApplyHeader(rows, detect_header_start(rows, MinRow, MaxRow)),
           L_report_date, report_date_of(path))
Boundaries_Padded(c, df) ==
    IF IsSoy(c)
    THEN find_line_v2(df) \o [k \in 1..(2 - Len(find_line_v2(df))) |-> NRows(df)]
    ELSE IF find_line(df) = <<>> THEN <<NRows(df)>> ELSE find_line(df)
Boundaries(c, df) == IF IsSoy(c) THEN find_line_v2(df) ELSE find_line(df)

(* Segment, soybean functions                                              *)
SoySlices(df, bl) ==
    <<RowSlice(df, 0, bl[1]),
      RowSlice(df, bl[1] + 1, bl[2]),
      RowSlice(df, bl[2] + 1, NRows(df))>>
SoyStaged(df, bl) ==
    LET s == SoySlices(df, bl)
    IN  <<DropNaCols(SetCol(EstFilter(s[1]), L_crop_stage, StageNames[1])),
          DropNaCols(SetCol(EstFilter(s[2]), L_crop_stage, StageNames[2])),
          DropNaCols(SetCol(s[3], L_crop_stage, StageNames[3]))>>
SoySegmentErr(df, bl) ==
    IF Len(bl) < 2 THEN "IndexError"
    ELSE LET b == SoyStaged(df, bl)
         IN  IF NCols(b[3]) = 0 THEN "IndexError"
             ELSE IF \E k \in 1..3 : ~SubsetOK(b[k], {L_Production, L_Exports})
                  THEN "KeyError"
             ELSE ""
SoyOutlookRepair(df) == ShiftFirstCol(df)
SoySegment(df, bl) ==
    LET b == SoyStaged(df, bl)
        F(x) == DropNaLabels(DropNaSubsetAny(x, {L_Production, L_Exports}))
    IN  <<F(b[1]), F(b[2]), F(SoyOutlookRepair(b[3]))>>

(* Segment, wheat and corn                                                 *)
Raw2HeaderErr(c, rows2) ==
    IF c = "corn" /\ detect_header_raises(rows2, MinRow, MaxRow) THEN TRUE
    ELSE HeaderErr(rows2, IF c = "corn" THEN detect_header_start(rows2, MinRow, MaxRow)
                          ELSE Raw2Header)
Raw2Headed(c, rows2) ==
    DropNaCols(ApplyHeader(rows2, IF c = "corn"
                                  THEN detect_header_start(rows2, MinRow, MaxRow)
                                  ELSE Raw2Header))
GrainSegmentErr(c, df, bl, rows2) ==
    IF bl = <<>> THEN "TypeError"
    ELSE IF Raw2HeaderErr(c, rows2) THEN "IndexError"
    ELSE IF NCols(Raw2Headed(c, rows2)) = 0 THEN "IndexError"
    ELSE ""
GrainSegment(c, df, bl, rows2, path) ==
    LET cur == SetCol(EstFilter(RowSlice(df, 0, bl[1])), L_crop_stage, StageNames[1])
        nxt == SetCol(EstFilter(RowSlice(df, bl[1] + 1, NRows(df))),
                      L_crop_stage, StageNames[2])
        raw2 == DropNaLabels(DropNaRowsAll(ShiftFirstCol(Raw2Headed(c, rows2))))
    IN  <<DropNaLabels(cur), DropNaLabels(nxt),
          SetCol(raw2, L_report_date, report_date_of(path))>>

(* Normalize                                                               *)
SoyNormalizeErr(c, b) ==
    IF \E k \in 1..3 : ~HasCol(RenameBlock(c, b[k]), L_country) THEN "KeyError" ELSE ""
SoyNormalize(c, b) ==
    LET r == [k \in 1..3 |-> StrStripCol(RenameBlock(c, b[k]), L_country)]
        o1 == DropRowsWhere(r[3], [i \in 1..NRows(r[3]) |->
                                      ContainsNan(LowerCell(r[3], i, L_country))])
        o2 == DropRowsWhere(o1, [i \in 1..NRows(o1) |->
                                   ContainsNone(LowerCell(o1, i, L_country))])
    IN  <<r[1], r[2], DropNaSubsetAny(o2, {L_country})>>

GrainRowFilter(c, df) ==
    IF c = "corn" THEN DropNaSubsetAll(df, {L_production, L_exports}) ELSE df
GrainNormalizeErr(c, b) ==
    LET r == [k \in 1..3 |-> RenameBlock(c, b[k])]
    IN  IF \E k \in 1..3 : ~HasCol(r[k], L_country) THEN "KeyError"
        ELSE IF c = "corn" /\ \E k \in 1..3 : ~SubsetOK(r[k], {L_production, L_exports})
             THEN "KeyError"
        ELSE IF ~HasCol(r[3], L_production) THEN "KeyError"
        ELSE ""
GrainNormalize(c, b) ==
    LET r == [k \in 1..3 |-> StrStripCol(RenameBlock(c, b[k]), L_country)]
        o0 == SetCol(r[3], L_crop_stage, StageNames[3])
        o1 == DropNaSubsetAny(GrainRowFilter(c, o0), {L_country})
        o2 == DropRowsWhere(o1, [i \in 1..NRows(o1) |->
                                   ContainsFiller(LowerCell(o1, i, L_production))])
        o3 == DropRowsWhere(o2, [i \in 1..NRows(o2) |->
                                   ContainsNan(LowerCell(o2, i, L_country))])
    IN  <<GrainRowFilter(c, r[1]), GrainRowFilter(c, r[2]), o3>>

(* Assemble: the long table                                                *)
DropsTrailingRow_All(c) == TRUE
DropsTrailingRow(c) == IsGrain(c)
LongTable(c, b) ==
    LET d == SetCol(DropNaRows(ConcatRows(b)), L_commodity, c)
    IN  IF DropsTrailingRow(c) THEN DropLastRow(d) ELSE d

(* Suffix, dropna, last row, crop_stage, reset_column_names (not corn)     *)
Suffixed(l, c, code) ==
    IF l \in {L_report_date, L_country} THEN l
    ELSE l \o CommodityTokens(c) \o <<code>>
BlockTrim_KeepsLast(df) == DropNaRows(df)
BlockTrim(df) == DropLastRow(DropNaRows(df))
FinalBlock(df, c, code) ==
    LET s == AsTable([cols |-> [j \in 1..NCols(df) |-> Suffixed(df.cols[j], c, code)],
                      rows |-> df.rows])
    IN  reset_column_names(DropCol(BlockTrim(s), Suffixed(L_crop_stage, c, code)))

(* Pivot                                                                   *)
PivotCols(df) ==
    Pick(df.cols, {j \in 1..NCols(df) : df.cols[j] \notin {L_country, L_report_date}})
PivotErr(b) ==
    IF \E k \in 1..3 : ~HasCol(b[k], L_country) THEN "KeyError"
    ELSE IF \E k \in 1..3 : pivot_raises(b[k], UniqueOf(b[k], L_country)) THEN "KeyError"
    ELSE ""
WideTable(df, c, code) ==
    LET countries == UniqueOf(df, L_country)
        pivot_cols == PivotCols(df)
    IN  clean_columns(pivot_df(df, countries, pivot_cols, c, code))
WideTables(b, c) == [k \in 1..3 |-> WideTable(b[k], c, StageCodes[k])]

----------------------------------------------------------------------------
(* Report files.  A sheet has six columns: the row label, Beginning        *)
(* Stocks, Production, two Domestic columns and Exports.  The value cells  *)
(* of a row carry the row's number, so that every value names its row.     *)

MaxBlockRows == 3

Val(r, j) == ToString(100 + 10 * r + j)

\* the kinds of rows below the header: the row label and the null cells
RowLabel(k) ==
    CASE k = "U" -> "United States"
      [] k = "C" -> "China"
      [] k = "W" -> "World"
      [] k = "P" -> "China"
      [] k = "E" -> "2023/24 Est."
      [] k = "J" -> "2024/25 Proj."
      [] k = "F" -> "Est. 3/"
      [] k = "N" -> NaN
RowNulls(k) ==
    CASE k \in {"U", "C", "W", "F"} -> {}
      [] k = "P" -> {3}
      [] k \in {"E", "J", "N"} -> 2..6
MkRow(k, r) ==
    [j \in 1..6 |-> IF j = 1 THEN RowLabel(k)
                    ELSE IF j \in RowNulls(k) THEN NaN ELSE Val(r, j)]
Body(kinds, base) == [i \in 1..Len(kinds) |-> MkRow(kinds[i], base + i)]

TitleRow == <<"Title", NaN, NaN, NaN, NaN, NaN>>
HeaderGrain ==
    <<"2022/23", "Beginning\nStocks", "Production", "Domestic\nFeed",
      "Domestic\nTotal 2/", "Exports">>
HeaderBothFeeds ==
    <<"2022/23", "Beginning\nStocks", "Production", "Domestic\nFeed",
      "Domestic\nFeed 2/", "Exports">>
HeaderSoy ==
    <<"2022/23", "Beginning\nStocks", "Production", "Domestic\nCrush",
      "Domestic\nTotal/", "Exports">>
Sheet(headerAt, header, body) ==
    [i \in 1..headerAt |-> TitleRow] \o <<header>> \o body

----------------------------------------------------------------------------
(* The run of one process_<commodity>(wasde_path) call.                    *)

NoArgs == [countries |-> <<>>, pivot_cols |-> <<>>, commodity |-> "", crop_stage |-> ""]

\* no call of the other functions is under way
DlIdle ==
    /\ dl_pc = "idle"
    /\ dl_run = 0
    /\ dl_releases = <<>>
    /\ dl_limit = 0
    /\ dl_status = <<>>
    /\ dl_disk = <<>>
    /\ dl_pos = <<0, 0>>
    /\ dl_downloaded = 0
    /\ dl_log = <<>>
AgIdle ==
    /\ ag_pc = "idle"
    /\ ag_wasde = <<>>
    /\ ag_quotes = <<>>
    /\ ag_out = <<>>
LcIdle ==
    /\ lc_pc = {}
    /\ lc_df = EmptyDF
    /\ lc_all = <<>>
    /\ lc_last = <<>>
HpIdle ==
    /\ hp_pc = "idle"
    /\ hp_call = ""
    /\ hp_in = EmptyDF
    /\ hp_df = EmptyDF
    /\ hp_range = <<0, 0>>
    /\ hp_out = EmptyDF
    /\ hp_idx = <<>>
PivIdle ==
    /\ pv_pc = "idle"
    /\ pv_df = EmptyDF
    /\ pv_args = NoArgs
    /\ pv_out = EmptyDF
RunIdle ==
    /\ pc = "idle"
    /\ commodity = ""
    /\ wasde_path = <<>>
    /\ readable = <<TRUE, TRUE>>
    /\ sheet1 = <<>>
    /\ sheet2 = <<>>
    /\ steps = {}
    /\ df_raw = EmptyDF
    /\ broken_line = <<>>
    /\ blocks = <<EmptyDF, EmptyDF, EmptyDF>>
    /\ df_long = EmptyDF
    /\ pblocks = <<EmptyDF, EmptyDF, EmptyDF>>
    /\ wide = <<EmptyDF, EmptyDF, EmptyDF>>
    /\ result = "pending"
    /\ error = ""

Raise(e) ==
    /\ pc' = "done"
    /\ result' = "raised"
    /\ error' = e

\* pd.read_excel of the designated sheet(s) inside try/except
NeedsSheet2_WheatOnly(c) == c = "wheat"
NeedsSheet2(c) == IsGrain(c)
ReadFails == ~readable[1] \/ (NeedsSheet2(commodity) /\ ~readable[2])
Load ==
    /\ UNCHANGED <<pivVars, auxVars>>
    /\ pc = "start"
    /\ steps' = steps \cup {"load"}
    /\ IF ReadFails
       THEN pc' = "done" /\ result' = "None"
       ELSE pc' = "loaded" /\ result' = result
    /\ UNCHANGED <<commodity, wasde_path, readable, sheet1, sheet2, df_raw,
                   broken_line, blocks, df_long, pblocks, wide, error>>

Locate ==
    /\ UNCHANGED <<pivVars, auxVars>>
    /\ pc = "loaded"
    /\ steps' = steps \cup {"locate"}
    /\ IF LocateErr(sheet1) # ""
       THEN /\ Raise(LocateErr(sheet1))
            /\ UNCHANGED <<df_raw, broken_line>>
       ELSE /\ df_raw' = LocateDF(sheet1, wasde_path)
            /\ broken_line' = Boundaries(commodity, df_raw')
            /\ pc' = "located"
            /\ UNCHANGED <<result, error>>
    /\ UNCHANGED <<commodity, wasde_path, readable, sheet1, sheet2, blocks,
                   df_long, pblocks, wide>>

SegmentErr ==
    IF IsSoy(commodity) THEN SoySegmentErr(df_raw, broken_line)
    ELSE GrainSegmentErr(commodity, df_raw, broken_line, sheet2)
Segment ==
    /\ UNCHANGED <<pivVars, auxVars>>
    /\ pc = "located"
    /\ steps' = steps \cup {"segment"}
    /\ IF SegmentErr # ""
       THEN /\ Raise(SegmentErr)
            /\ UNCHANGED blocks
       ELSE /\ blocks' = IF IsSoy(commodity) THEN SoySegment(df_raw, broken_line)
                         ELSE GrainSegment(commodity, df_raw, broken_line, sheet2,
                                           wasde_path)
            /\ pc' = "segmented"
            /\ UNCHANGED <<result, error>>
    /\ UNCHANGED <<commodity, wasde_path, readable, sheet1, sheet2, df_raw,
                   broken_line, df_long, pblocks, wide>>

NormalizeErr ==
    IF IsSoy(commodity) THEN SoyNormalizeErr(commodity, blocks)
    ELSE GrainNormalizeErr(commodity, blocks)
Normalize ==
    /\ UNCHANGED <<pivVars, auxVars>>
    /\ pc = "segmented"
    /\ steps' = steps \cup {"normalize"}
    /\ IF NormalizeErr # ""
       THEN /\ Raise(NormalizeErr)
            /\ UNCHANGED blocks
       ELSE /\ blocks' = IF IsSoy(commodity) THEN SoyNormalize(commodity, blocks)
                         ELSE GrainNormalize(commodity, blocks)
            /\ pc' = "normalized"
            /\ UNCHANGED <<result, error>>
    /\ UNCHANGED <<commodity, wasde_path, readable, sheet1, sheet2, df_raw,
                   broken_line, df_long, pblocks, wide>>

Assemble ==
    /\ UNCHANGED <<pivVars, auxVars>>
    /\ pc = "normalized"
    /\ steps' = steps \cup {"assemble"}
    /\ IF ~ConcatOK(blocks)
       THEN /\ Raise("InvalidIndexError")
            /\ UNCHANGED df_long
       ELSE /\ df_long' = LongTable(commodity, blocks)
            /\ pc' = "assembled"
            /\ UNCHANGED <<result, error>>
    /\ UNCHANGED <<commodity, wasde_path, readable, sheet1, sheet2, df_raw,
                   broken_line, blocks, pblocks, wide>>

\* process_corn hands its normalized blocks to pivot_df as they are
HasSuffixStep(c) == c # "corn"
PivotInput ==
    IF HasSuffixStep(commodity)
    THEN [k \in 1..3 |-> FinalBlock(blocks[k], commodity, StageCodes[k])]
    ELSE blocks
Pivot ==
    /\ UNCHANGED <<pivVars, auxVars>>
    /\ pc = "assembled"
    /\ steps' = steps \cup {"pivot"}
    /\ pblocks' = PivotInput
    /\ IF PivotErr(pblocks') # ""
       THEN /\ Raise(PivotErr(pblocks'))
            /\ UNCHANGED wide
       ELSE /\ wide' = WideTables(pblocks', commodity)
            /\ pc' = "done"
            /\ result' = "tuple"
            /\ UNCHANGED error
    /\ UNCHANGED <<commodity, wasde_path, readable, sheet1, sheet2, df_raw,
                   broken_line, blocks, df_long>>

Next == Load \/ Locate \/ Segment \/ Normalize \/ Assemble \/ Pivot

----------------------------------------------------------------------------
(* The report files of the model.  The rows of a stage block are the first *)
(* n rows (n <= MaxBlockRows) of a row pattern; the blocks are separated   *)
(* by the boundary rows of a layout.  The single-sheet commodities read    *)
(* the three blocks from one sheet; wheat and corn read the outlook block  *)
(* from the secondary sheet.                                               *)

Paths == {<<"2024-05-10", "wasde0524.xls">>, <<"2023-11-09", "wasde1123", "v2.xls">>}

Patterns ==
    {<<"U", "C", "W", "U", "C">>,      \* countries, one row each
     <<"C", "C", "W", "U", "W">>,      \* a country listed twice
     <<"C", "P", "W", "U", "C">>,      \* a row without production
     <<"F", "C", "N", "W", "U">>,      \* a footnote row and a blank row
     <<"C", "E", "W", "U", "C">>}      \* a crop-year row inside the block
SepLayouts == {<<"E", "J">>, <<"E">>, <<>>}
HeaderRows == {2, 3, 16}
DefaultHeaderRow == FallbackHeader
Sheet2Base == 4 * MaxBlockRows

Sep(layout, k) == IF k <= Len(layout) THEN <<layout[k]>> ELSE <<>>
Sheet1Kinds(c, p, n, layout) ==
    SubSeq(p, 1, n[1]) \o Sep(layout, 1) \o SubSeq(p, 1, n[2]) \o Sep(layout, 2)
        \o (IF IsSoy(c) THEN SubSeq(p, 1, n[3]) ELSE <<>>)
Sheet2Kinds(c, p, n) == IF IsSoy(c) THEN <<>> ELSE SubSeq(p, 1, n[3])
DefaultHeader(c) == IF IsSoy(c) THEN HeaderSoy ELSE HeaderGrain

InitRun(c, path, rd, s1, s2) ==
    /\ pc = "start"
    /\ commodity = c
    /\ wasde_path = path
    /\ readable = rd
    /\ sheet1 = s1
    /\ sheet2 = s2
    /\ steps = {}
    /\ df_raw = EmptyDF
    /\ broken_line = <<>>
    /\ blocks = <<EmptyDF, EmptyDF, EmptyDF>>
    /\ df_long = EmptyDF
    /\ pblocks = <<EmptyDF, EmptyDF, EmptyDF>>
    /\ wide = <<EmptyDF, EmptyDF, EmptyDF>>
    /\ result = "pending"
    /\ error = ""
    /\ pv_pc = "idle"
    /\ pv_df = EmptyDF
    /\ pv_args = NoArgs
    /\ pv_out = EmptyDF
    /\ DlIdle /\ AgIdle /\ LcIdle /\ HpIdle

\* files that differ in the rows of their blocks and in their boundary rows
InitRows ==
    \E c \in Commodities, p \in Patterns, layout \in SepLayouts,
       n \in [1..3 -> 0..MaxBlockRows] :
        InitRun(c, <<"2024-05-10", "wasde0524.xls">>, <<TRUE, TRUE>>,
                Sheet(DefaultHeaderRow, DefaultHeader(c), Body(Sheet1Kinds(c, p, n, layout), 0)),
                Sheet(DefaultHeaderRow, DefaultHeader(c), Body(Sheet2Kinds(c, p, n), Sheet2Base)))

\* files that differ in their name, in the sheets that can be read, in the
\* header row's labels and in its position
InitSheets ==
    \E c \in Commodities, path \in Paths, rd \in [1..2 -> BOOLEAN],
       h1 \in {HeaderGrain, HeaderBothFeeds, HeaderSoy},
       h2 \in {HeaderGrain, HeaderBothFeeds},
       at \in HeaderRows \cup {DefaultHeaderRow}, m \in 2..MaxBlockRows :
        LET p == <<"U", "C", "W", "U", "C">>
            n == <<m, m, m>>
        IN  InitRun(c, path, rd,
                    Sheet(at, h1, Body(Sheet1Kinds(c, p, n, <<"E", "J">>), 0)),
                    Sheet(DefaultHeaderRow, h2, Body(Sheet2Kinds(c, p, n), Sheet2Base)))

Init == InitRows \/ InitSheets

Spec == Init /\ [][Next]_vars

----------------------------------------------------------------------------
(* A direct call pivot_df(df, countries, pivot_cols, commodity,            *)
(* crop_stage) on a block whose rows and whose countries list are chosen   *)
(* freely: a country may have several rows, or none.                       *)

MaxPivotRows == 3
MaxCountries == 2

CountryNames == {"United States", "China", "World"}
SeqsUpTo(S, n) == UNION {[1..k -> S] : k \in 0..n}
DateOf(i) == IF i = 1 THEN "2024-05-10" ELSE "2024-06-12"
PivotBlock(names) ==
    [cols |-> <<L_country, L_report_date, L_Production, L_Exports>>,
     rows |-> [i \in 1..Len(names) |-> <<names[i], DateOf(i), Val(i, 3), Val(i, 6)>>]]
\* a block that has neither a country nor a report_date column
PivotBlockBare(names) ==
    [cols |-> <<L_Production, L_Exports>>,
     rows |-> [i \in 1..Len(names) |-> <<Val(i, 3), Val(i, 6)>>]]

InitPivot ==
    /\ pc = "idle"
    /\ commodity = ""
    /\ wasde_path = <<>>
    /\ readable = <<TRUE, TRUE>>
    /\ sheet1 = <<>>
    /\ sheet2 = <<>>
    /\ steps = {}
    /\ df_raw = EmptyDF
    /\ broken_line = <<>>
    /\ blocks = <<EmptyDF, EmptyDF, EmptyDF>>
    /\ df_long = EmptyDF
    /\ pblocks = <<EmptyDF, EmptyDF, EmptyDF>>
    /\ wide = <<EmptyDF, EmptyDF, EmptyDF>>
    /\ result = "pending"
    /\ error = ""
    /\ pv_pc = "call"
    /\ pv_out = EmptyDF
    /\ DlIdle /\ AgIdle /\ LcIdle /\ HpIdle
    /\ \E names \in SeqsUpTo(CountryNames, MaxPivotRows), keyed \in BOOLEAN :
          pv_df = IF keyed THEN PivotBlock(names) ELSE PivotBlockBare(names)
    /\ \E cs \in SeqsUpTo(CountryNames, MaxCountries),
          pcs \in {<<L_Production, L_Exports>>, <<L_Production>>},
          cc \in {<<"corn", "cy">>, <<"soybean_oil", "oy">>} :
            pv_args = [countries |-> cs, pivot_cols |-> pcs,
                       commodity |-> cc[1], crop_stage |-> cc[2]]

PivotCall ==
    /\ pv_pc = "call"
    /\ IF pivot_raises(pv_df, pv_args.countries)
       THEN /\ pv_pc' = "raised"
            /\ UNCHANGED pv_out
       ELSE /\ pv_out' = pivot_df(pv_df, pv_args.countries, pv_args.pivot_cols,
                                  pv_args.commodity, pv_args.crop_stage)
            /\ pv_pc' = "returned"
    /\ UNCHANGED <<pv_df, pv_args, runVars, auxVars>>

NextPivot == PivotCall

SpecPivot == InitPivot /\ [][NextPivot]_vars

----------------------------------------------------------------------------
(* download_release_files(releases, limit), called twice in a row on the   *)
(* same releases.  A step is one pass of the inner loop: one file url.     *)

MaxFiles == 3

UrlA == "https://usda.example/a/wasde0524.xls"
UrlB == "https://usda.example/b/wasde0524.xls"
UrlC == "https://usda.example/a/wasde0624.xls"
UrlP == "https://usda.example/a/wasde0524.pdf"
Urls == {UrlA, UrlB, UrlC, UrlP}
DateTimes == <<"2024-05-10T16:00:00Z", "2024-05-10T18:30:00Z", "2024-06-12T16:00:00Z">>

\* file_url.endswith(".xls")
EndsWithXls(u) == u \in {UrlA, UrlB, UrlC}
\* os.path.basename(urlparse(file_url).path)
Basename(u) ==
    CASE u \in {UrlA, UrlB} -> "wasde0524.xls"
      [] u = UrlC -> "wasde0624.xls"
      [] u = UrlP -> "wasde0524.pdf"
\* release.get("release_datetime", "")[:10]
ReleaseDate(release) ==
    CASE release.release_datetime \in {DateTimes[1], DateTimes[2]} -> "2024-05-10"
      [] release.release_datetime = DateTimes[3] -> "2024-06-12"
      [] OTHER -> ""
\* WASDE_FOLDER / f"{release_date}_{filename}": the file name's two parts
SavePath(release, u) == <<ReleaseDate(release), Basename(u)>>
\* save_path.exists()
Exists_Never(disk, path) == FALSE
Exists(disk, path) == path \in DOMAIN disk
\* f_out.write(file_resp.content)
WriteFile(disk, path, content) ==
    [q \in DOMAIN disk \cup {path} |-> IF q = path THEN content ELSE disk[q]]
\* file_resp.content: what the server holds for the url at the time of the
\* call; call 0 stands for a download made before the two calls
Content(u, run) == <<u, run>>
StatusOK == 200
StatusNotFound == 404

\* the loop position after <<i, j>>: the next file of the same release or
\* the first file of the next release that has files; past the last release
\* the loops are over
NextPos(releases, i, j) ==
    IF i \in 1..Len(releases) /\ j < Len(releases[i].files) THEN <<i, j + 1>>
    ELSE LET later == {k \in (i + 1)..Len(releases) : releases[k].files # <<>>}
         IN  IF later = {} THEN <<Len(releases) + 1, 1>>
             ELSE <<CHOOSE k \in later : \A m \in later : k <= m, 1>>
AtFile == dl_pc = "loop" /\ dl_pos[1] <= Len(dl_releases)
CurRelease == dl_releases[dl_pos[1]]
CurUrl == CurRelease.files[dl_pos[2]]
CurPath == SavePath(CurRelease, CurUrl)
Logged(op) ==
    Append(dl_log, [run |-> dl_run, op |-> op, path |-> CurPath,
                    existed |-> CurPath \in DOMAIN dl_disk])
Advance == dl_pos' = NextPos(dl_releases, dl_pos[1], dl_pos[2])

\* the limit test passing only above the limit
LimitReached_Late(limit, downloaded) == limit # 0 /\ downloaded > limit
\* limit and downloaded >= limit
LimitReached(limit, downloaded) == limit # 0 /\ downloaded >= limit

\* a file that is not .xls is passed over
DlSkipOther ==
    /\ AtFile /\ ~EndsWithXls(CurUrl)
    /\ Advance
    /\ UNCHANGED <<dl_pc, dl_run, dl_releases, dl_limit, dl_status, dl_disk,
                   dl_downloaded, dl_log>>
    /\ UNCHANGED <<runVars, pivVars, agVars, lcVars, hpVars>>

\* "Already exists ... skipping"
DlSkipExisting ==
    /\ AtFile /\ EndsWithXls(CurUrl) /\ Exists(dl_disk, CurPath)
    /\ dl_log' = Logged("skip")
    /\ Advance
    /\ UNCHANGED <<dl_pc, dl_run, dl_releases, dl_limit, dl_status, dl_disk,
                   dl_downloaded>>
    /\ UNCHANGED <<runVars, pivVars, agVars, lcVars, hpVars>>

\* requests.get answers 200: the file is written and counted, and the call
\* returns when the limit is reached
DlDownload ==
    /\ AtFile /\ EndsWithXls(CurUrl) /\ ~Exists(dl_disk, CurPath)
    /\ dl_status[dl_run][CurUrl] = StatusOK
    /\ dl_disk' = WriteFile(dl_disk, CurPath, Content(CurUrl, dl_run))
    /\ dl_downloaded' = dl_downloaded + 1
    /\ IF LimitReached(dl_limit, dl_downloaded')
       THEN /\ dl_pc' = "returned"
            /\ dl_log' = Logged("fetch") \o
                  <<[run |-> dl_run, op |-> "write", path |-> CurPath,
                     existed |-> CurPath \in DOMAIN dl_disk],
                    [run |-> dl_run, op |-> "limit", path |-> CurPath,
                     existed |-> CurPath \in DOMAIN dl_disk]>>
            /\ UNCHANGED dl_pos
       ELSE /\ dl_log' = Logged("fetch") \o
                  <<[run |-> dl_run, op |-> "write", path |-> CurPath,
                     existed |-> CurPath \in DOMAIN dl_disk]>>
            /\ Advance
            /\ UNCHANGED dl_pc
    /\ UNCHANGED <<dl_run, dl_releases, dl_limit, dl_status>>
    /\ UNCHANGED <<runVars, pivVars, agVars, lcVars, hpVars>>

\* requests.get answers another status: "Failed to download"
DlFetchFailed ==
    /\ AtFile /\ EndsWithXls(CurUrl) /\ ~Exists(dl_disk, CurPath)
    /\ dl_status[dl_run][CurUrl] # StatusOK
    /\ dl_log' = Logged("fetch") \o
          <<[run |-> dl_run, op |-> "failed", path |-> CurPath,
             existed |-> CurPath \in DOMAIN dl_disk]>>
    /\ Advance
    /\ UNCHANGED <<dl_pc, dl_run, dl_releases, dl_limit, dl_status, dl_disk,
                   dl_downloaded>>
    /\ UNCHANGED <<runVars, pivVars, agVars, lcVars, hpVars>>

\* the loops are over: the call returns
DlReturn ==
    /\ dl_pc = "loop" /\ dl_pos[1] > Len(dl_releases)
    /\ dl_pc' = "returned"
    /\ UNCHANGED <<dl_run, dl_releases, dl_limit, dl_status, dl_disk, dl_pos,
                   dl_downloaded, dl_log>>
    /\ UNCHANGED <<runVars, pivVars, agVars, lcVars, hpVars>>

\* the caller calls download_release_files(releases, limit) again
DlCallAgain ==
    /\ dl_pc = "returned" /\ dl_run = 1
    /\ dl_run' = 2
    /\ dl_pc' = "loop"
    /\ dl_pos' = NextPos(dl_releases, 0, 0)
    /\ dl_downloaded' = 0
    /\ UNCHANGED <<dl_releases, dl_limit, dl_status, dl_disk, dl_log>>
    /\ UNCHANGED <<runVars, pivVars, agVars, lcVars, hpVars>>

NextDownload ==
    DlSkipOther \/ DlSkipExisting \/ DlDownload \/ DlFetchFailed \/ DlReturn
        \/ DlCallAgain

\* the releases: up to MaxFiles urls in two releases, of the same day or of
\* different days; the server may refuse one url in either call; the folder
\* may hold a file already
InitDownload ==
    /\ RunIdle /\ PivIdle /\ AgIdle /\ LcIdle /\ HpIdle
    /\ dl_pc = "loop"
    /\ dl_run = 1
    /\ dl_downloaded = 0
    /\ dl_log = <<>>
    /\ \E fs \in SeqsUpTo(Urls, MaxFiles), second \in 2..3 :
         \E cut \in 0..Len(fs) :
            dl_releases =
                <<[release_datetime |-> DateTimes[1], files |-> SubSeq(fs, 1, cut)],
                  [release_datetime |-> DateTimes[second],
                   files |-> SubSeq(fs, cut + 1, Len(fs))]>>
    /\ dl_pos = NextPos(dl_releases, 0, 0)
    /\ dl_limit \in {0, 1, 2}
    /\ \E refused \in {<<{}, {}>>, <<{UrlA}, {}>>, <<{}, {UrlA}>>} :
         dl_status = [r \in 1..2 |->
                        [u \in Urls |-> IF u \in refused[r] THEN StatusNotFound
                                        ELSE StatusOK]]
    /\ dl_disk \in {<<>>, [q \in {<<"2024-05-10", "wasde0624.xls">>} |-> Content(UrlC, 0)]}

SpecDownload == InitDownload /\ [][NextDownload]_vars

----------------------------------------------------------------------------
(* prepare_modeling_data(raw_wasde, raw_quotes) of src/src/eda_utils.py:   *)
(* preprocess_wasde_data, preprocess_futures_data and                      *)
(* aggregate_prices_by_report_window.  A date is a day number; a price is  *)
(* a whole number, the composite soybean price in millionths; a mean is    *)
(* the fraction <<sum, count>>, <<0, 0>> being the NaN of an empty window. *)

MaxReports == 3
MaxQuotes == 2

DateStrings == <<"2024-04-29", "2024-04-30", "2024-05-01", "2024-05-02">>
\* pd.to_datetime(s): the day number of a date string
to_datetime(s) == 119 + CHOOSE i \in 1..Len(DateStrings) : DateStrings[i] = s
\* x - pd.Timedelta(days=1)
WindowEnd_SameDay(report_date) == report_date
WindowEnd(report_date) == report_date - 1

\* the orders sort_values(key) may give the rows of a table: every order
\* in which the keys do not decrease (quicksort keeps no order among ties)
SortOrders(rows, key) ==
    {p \in [1..Len(rows) -> 1..Len(rows)] :
        /\ \A i, j \in 1..Len(rows) : i # j => p[i] # p[j]
        /\ \A i \in 1..(Len(rows) - 1) : key[p[i]] <= key[p[i + 1]]}

\* ((soybean_quote + soybean_premium) / 100) * 36.7454, in millionths
SoybeanPrice(quote, premium) == (quote + premium) * 367454

Sum(s) ==
    LET F[i \in 0..Len(s)] == IF i = 0 THEN 0 ELSE F[i - 1] + s[i]
    IN  F[Len(s)]
\* Series.mean()
Mean(s) == <<Sum(s), Len(s)>>

\* preprocess_wasde_data(df_wasde)
AgPreprocessWasde ==
    /\ ag_pc = "raw"
    /\ LET df == [i \in 1..Len(ag_wasde) |->
                    [ag_wasde[i] EXCEPT !.report_date = to_datetime(@)]]
       IN  \E p \in SortOrders(df, [i \in 1..Len(df) |-> df[i].report_date]) :
              ag_wasde' = [i \in 1..Len(df) |-> df[p[i]]]
    /\ ag_pc' = "wasde"
    /\ UNCHANGED <<ag_quotes, ag_out>>
    /\ UNCHANGED <<runVars, pivVars, dlVars, lcVars, hpVars>>

\* preprocess_futures_data(df_quotes)
AgPreprocessFutures ==
    /\ ag_pc = "wasde"
    /\ LET df == [i \in 1..Len(ag_quotes) |->
                    [date |-> to_datetime(ag_quotes[i].date),
                     corn_quote |-> ag_quotes[i].corn_quote,
                     soybean |-> SoybeanPrice(ag_quotes[i].soybean_quote,
                                              ag_quotes[i].soybean_premium)]]
       IN  \E p \in SortOrders(df, [i \in 1..Len(df) |-> df[i].date]) :
              ag_quotes' = [i \in 1..Len(df) |-> df[p[i]]]
    /\ ag_pc' = "quotes"
    /\ UNCHANGED <<ag_wasde, ag_out>>
    /\ UNCHANGED <<runVars, pivVars, dlVars, lcVars, hpVars>>

\* the record of report i with every window opened at the first report
ReportRecord_FromFirst(df_wasde, df_quotes, i) ==
    LET current_report == df_wasde[i]
        prev_report_date == df_wasde[1].report_date
        window_end == WindowEnd(current_report.report_date)
        mask == {k \in 1..Len(df_quotes) :
                    df_quotes[k].date >= prev_report_date
                        /\ df_quotes[k].date <= window_end}
        window_quotes == Pick(df_quotes, mask)
    IN  [id |-> current_report.id,
         report_date |-> current_report.report_date,
         corn_quote |-> Mean([k \in 1..Len(window_quotes) |-> window_quotes[k].corn_quote]),
         soybean |-> Mean([k \in 1..Len(window_quotes) |-> window_quotes[k].soybean]),
         window_start |-> prev_report_date,
         window_end |-> window_end]
\* aggregate_prices_by_report_window(df_wasde, df_quotes)
ReportRecord(df_wasde, df_quotes, i) ==
    LET current_report == df_wasde[i]
        prev_report_date == df_wasde[i - 1].report_date
        window_end == WindowEnd(current_report.report_date)
        mask == {k \in 1..Len(df_quotes) :
                    df_quotes[k].date >= prev_report_date
                        /\ df_quotes[k].date <= window_end}
        window_quotes == Pick(df_quotes, mask)
    IN  [id |-> current_report.id,
         report_date |-> current_report.report_date,
         corn_quote |-> Mean([k \in 1..Len(window_quotes) |-> window_quotes[k].corn_quote]),
         soybean |-> Mean([k \in 1..Len(window_quotes) |-> window_quotes[k].soybean]),
         window_start |-> prev_report_date,
         window_end |-> window_end]
aggregate_prices_by_report_window(df_wasde, df_quotes) ==
    [i \in 1..(Len(df_wasde) - 1) |-> ReportRecord(df_wasde, df_quotes, i + 1)]
AgAggregate ==
    /\ ag_pc = "quotes"
    /\ ag_out' = IF Len(ag_wasde) <= 1 THEN <<>>
                 ELSE Tup(aggregate_prices_by_report_window(ag_wasde, ag_quotes))
    /\ ag_pc' = "done"
    /\ UNCHANGED <<ag_wasde, ag_quotes>>
    /\ UNCHANGED <<runVars, pivVars, dlVars, lcVars, hpVars>>

NextAggregate == AgPreprocessWasde \/ AgPreprocessFutures \/ AgAggregate

\* the quote of a day: prices that differ from day to day
RawQuote(s) ==
    [date |-> s,
     corn_quote |-> 400 + to_datetime(s) * to_datetime(s) - 14400,
     soybean_quote |-> 1100 + 7 * (to_datetime(s) - 119),
     soybean_premium |-> 100 + (to_datetime(s) - 119) * (to_datetime(s) - 119)]
Dates == {DateStrings[i] : i \in 1..Len(DateStrings)}

\* reports and quotes in any order, several of a day or none
InitAggregate ==
    /\ RunIdle /\ PivIdle /\ DlIdle /\ LcIdle /\ HpIdle
    /\ ag_pc = "raw"
    /\ ag_out = <<>>
    /\ \E ds \in SeqsUpTo(Dates, MaxReports) :
          ag_wasde = [i \in 1..Len(ds) |-> [report_date |-> ds[i], id |-> i]]
    /\ \E ds \in SeqsUpTo(Dates, MaxQuotes) :
          ag_quotes = [i \in 1..Len(ds) |-> RawQuote(ds[i])]

SpecAggregate == InitAggregate /\ [][NextAggregate]_vars

----------------------------------------------------------------------------
(* find_line_v2(df) and find_line(df) called on the same grid, whose rows  *)
(* are chosen freely: any number of rows with a crop-year cell, anywhere.  *)

MaxGridRows == 3

\* cells of the first column: a country, a null, crop years as the reports
\* write them (also with a line break), and a crop year glued to letters,
\* which the pattern's \b does not accept
LabelCells == {"China", NaN, "2022/23", "2023/24 Est.", "2024/25\nProj.", "MY2024/25"}
ValueCells == {NaN, "2024/25 Proj."}
GridRows == {<<a, b>> : a \in LabelCells, b \in ValueCells}
Grid(rows) == [cols |-> <<<<"Title">>, <<"Unnamed: 1">>>>, rows |-> rows]

LcFindLineV2 ==
    /\ "find_line_v2" \notin lc_pc
    /\ lc_all' = find_line_v2(lc_df)
    /\ lc_pc' = lc_pc \cup {"find_line_v2"}
    /\ UNCHANGED <<lc_df, lc_last>>
    /\ UNCHANGED <<runVars, pivVars, dlVars, agVars, hpVars>>

LcFindLine ==
    /\ "find_line" \notin lc_pc
    /\ lc_last' = find_line(lc_df)
    /\ lc_pc' = lc_pc \cup {"find_line"}
    /\ UNCHANGED <<lc_df, lc_all>>
    /\ UNCHANGED <<runVars, pivVars, dlVars, agVars, hpVars>>

NextLocate == LcFindLineV2 \/ LcFindLine

InitLocate ==
    /\ RunIdle /\ PivIdle /\ DlIdle /\ AgIdle /\ HpIdle
    /\ lc_pc = {}
    /\ lc_all = <<>>
    /\ lc_last = <<>>
    /\ \E rows \in SeqsUpTo(GridRows, MaxGridRows) : lc_df = Grid(rows)

SpecLocate == InitLocate /\ [][NextLocate]_vars

----------------------------------------------------------------------------
(* A direct call of one of the helpers detect_header_start, clean_columns  *)
(* and reset_column_names on a table the caller built.  The caller keeps   *)
(* its table (hp_df) after the call; hp_in is that table as it was passed. *)

MaxHelperRows == 3

\* column labels: two that differ by case and blanks only, one with a
\* suffix after an underscore, one unlike the others
HelperLabels == {<<"Production">>, <<" production ">>,
                 <<"production", "wheat", "cy">>, <<"Exports">>}
\* a row with a header cell and a row without; the cells of a row differ
HelperRows == {<<"World", "Beginning\nStocks", "1">>, <<"China", "2", "3">>}
\* <<min_row, max_row>>
HeaderRanges == {<<0, 2>>, <<1, 3>>, <<2, 4>>}

\* detect_header_start(df, min_row, max_row)
HpDetectHeader ==
    /\ hp_pc = "ready"
    /\ hp_call' = "detect_header_start"
    /\ IF detect_header_raises(hp_df.rows, hp_range[1], hp_range[2])
       THEN /\ hp_pc' = "raised"
            /\ UNCHANGED hp_idx
       ELSE /\ hp_idx' = <<detect_header_start(hp_df.rows, hp_range[1], hp_range[2])>>
            /\ hp_pc' = "returned"
    /\ UNCHANGED <<hp_in, hp_df, hp_range, hp_out>>
    /\ UNCHANGED <<runVars, pivVars, dlVars, agVars, lcVars>>

\* clean_columns(df): the labels of df are set, then the new table is built
HpCleanColumns ==
    /\ hp_pc = "ready"
    /\ hp_call' = "clean_columns"
    /\ hp_df' = clean_columns_arg(hp_df)
    /\ hp_out' = clean_columns(hp_df)
    /\ hp_pc' = "returned"
    /\ UNCHANGED <<hp_in, hp_range, hp_idx>>
    /\ UNCHANGED <<runVars, pivVars, dlVars, agVars, lcVars>>

\* reset_column_names(df): df.rename returns a new table
HpResetColumnNames ==
    /\ hp_pc = "ready"
    /\ hp_call' = "reset_column_names"
    /\ hp_out' = reset_column_names(hp_df)
    /\ hp_pc' = "returned"
    /\ UNCHANGED <<hp_in, hp_df, hp_range, hp_idx>>
    /\ UNCHANGED <<runVars, pivVars, dlVars, agVars, lcVars>>

NextHelpers == HpDetectHeader \/ HpCleanColumns \/ HpResetColumnNames

\* any three of the labels over up to MaxHelperRows rows
InitHelpers ==
    /\ RunIdle /\ PivIdle /\ DlIdle /\ AgIdle /\ LcIdle
    /\ hp_pc = "ready"
    /\ hp_call = ""
    /\ \E a, b, c \in HelperLabels, rows \in SeqsUpTo(HelperRows, MaxHelperRows) :
          hp_df = [cols |-> <<a, b, c>>, rows |-> rows]
    /\ hp_in = hp_df
    /\ hp_range \in HeaderRanges
    /\ hp_out = EmptyDF
    /\ hp_idx = <<>>

SpecHelpers == InitHelpers /\ [][NextHelpers]_vars

----------------------------------------------------------------------------
(* Properties of a run of process_<commodity>.                             *)

NoTables == <<EmptyDF, EmptyDF, EmptyDF>>
AllSteps == {"load", "locate", "segment", "normalize", "assemble", "pivot"}

\* reading a designated sheet fails: the primary sheet, or for wheat and
\* corn the secondary sheet
AnySheetUnreadable ==
    ~readable[1] \/ (commodity \in {"wheat", "corn"} /\ ~readable[2])

\* C1, as stated: a finished run has one of two outcomes: None after the
\* load step alone when a designated sheet cannot be read, and the
\* four-table result otherwise.
C1_TwoOutcomes ==
    pc = "done" =>
        IF AnySheetUnreadable THEN result = "None" /\ steps = {"load"}
        ELSE result = "tuple"

\* C1, amended: a finished run has one of three outcomes.  When a designated
\* sheet cannot be read it returns None after the load step alone;
\* otherwise it either returns the four tables after all six steps or ends
\* in an exception raised by a later step, and then returns nothing.  A
\* run that reads its sheets never returns None.
C1_ThreeOutcomes ==
    /\ pc # "done" => result = "pending"
    /\ pc = "done" =>
         IF AnySheetUnreadable
         THEN result = "None" /\ steps = {"load"} /\ error = "" /\ wide = NoTables
         ELSE \/ result = "tuple" /\ steps = AllSteps /\ error = ""
              \/ /\ result = "raised"
                 /\ error \in {"IndexError", "TypeError", "KeyError", "InvalidIndexError"}
                 /\ {"load", "locate"} \subseteq steps
                 /\ wide = NoTables

\* process_corn returns None because only its secondary sheet is unreadable
C1_Witness ==
    /\ pc = "done" /\ commodity = "corn" /\ readable = <<TRUE, FALSE>>
    /\ result = "None" /\ steps = {"load"}

\* the rows of the located table that carry a crop-year label
CropYearLabels == {"2022/23", "2023/24 Est.", "2024/25 Proj."}
NumBoundaryRows ==
    Cardinality({i \in 1..NRows(df_raw) :
                    \E j \in 1..Len(df_raw.rows[i]) : df_raw.rows[i][j] \in CropYearLabels})
RequiredBoundaries == IF commodity \in {"wheat", "corn"} THEN 1 ELSE 2

CompleteRows(df) ==
    Cardinality({i \in 1..NRows(df) : \A j \in 1..Len(df.rows[i]) : df.rows[i][j] # NaN})
\* the part of the file name before its first underscore
FilePrefix == wasde_path[1]
OneRowDated(df) ==
    /\ NRows(df) = 1
    /\ df.cols # <<>> /\ df.cols[1] = L_report_date
    /\ df.rows[1][1] = FilePrefix

LabelsOf(df) == {df.cols[j] : j \in 1..NCols(df)}
\* the cell of the first row of a wide table under a label
WideCell(df, l) ==
    IF NRows(df) >= 1 /\ HasCol(df, l) THEN df.rows[1][ColPos(df, l)] ELSE "<absent>"
SlugOf(country) ==
    CASE country = "United States" -> "unitedstates"
      [] country = "China" -> "china"
      [] country = "World" -> "world"
      [] OTHER -> NoSpaces(Lower(country))

CanonicalFields ==
    {<<"beginning", "stocks">>, <<"production">>, <<"imports">>, <<"domestic", "feed">>,
     <<"domestic", "crush">>, <<"domestic", "total">>, <<"exports">>,
     <<"ending", "stocks">>}
\* {field}_{commodity}_{stage_code}_{country_slug} with the full field name
FullName(field, k, country) ==
    field \o CommodityTokens(commodity) \o <<StageCodes[k], SlugOf(country)>>

\* C4: each returned wide table has exactly one column for every canonical
\* field of its stage block and every country of the block handed to
\* pivot_df, named with the field's full canonical name.
C4_FullNameColumns ==
    result = "tuple" =>
        \A k \in 1..3 :
            \A f \in LabelsOf(blocks[k]) \cap CanonicalFields :
                \A ctry \in Elems(UniqueOf(pblocks[k], L_country)) :
                    Cardinality(ColsOf(wide[k], FullName(f, k, ctry))) = 1

\* the soybean sheet of the scenario: header at row 7, then the three
\* countries once per stage with all fields, the stages separated by two
\* crop-year rows
ScenarioLabels ==
    <<"United States", "China", "World", "2023/24 Est.",
      "United States", "China", "World", "2024/25 Proj.",
      "United States", "China", "World">>
ScenarioSheet ==
    /\ commodity = "soybean" /\ readable[1]
    /\ Len(sheet1) = 8 + Len(ScenarioLabels)
    /\ \A i \in 1..7 : sheet1[i] = TitleRow
    /\ sheet1[8] = HeaderSoy
    /\ \A i \in 1..Len(ScenarioLabels) :
          /\ sheet1[8 + i][1] = ScenarioLabels[i]
          /\ ScenarioLabels[i] \in {"United States", "China", "World"} =>
                \A j \in 1..Len(sheet1[8 + i]) : sheet1[8 + i][j] # NaN
\* the Production cell of the i-th row below the header
ScenarioProduction(i) == sheet1[8 + i][3]

\* C5: on the scenario sheet process_soybean returns a long table of nine
\* rows and three one-row wide tables that hold the United States'
\* current-year, China's next-year and World's outlook-year production
\* under production_soybean_cy_unitedstates, production_soybean_ny_china and
\* production_soybean_oy_world.
C5_SoybeanScenario ==
    (ScenarioSheet /\ pc = "done") =>
        /\ result = "tuple"
        /\ NRows(df_long) = 9
        /\ \A k \in 1..3 : NRows(wide[k]) = 1
        /\ WideCell(wide[1], <<"production", "soybean", "cy", "unitedstates">>)
              = ScenarioProduction(1)
        /\ WideCell(wide[2], <<"production", "soybean", "ny", "china">>)
              = ScenarioProduction(6)
        /\ WideCell(wide[3], <<"production", "soybean", "oy", "world">>)
              = ScenarioProduction(11)

LongBuilt == pc = "assembled" \/ "pivot" \in steps

\* C6, as stated: the long table is the concatenation of the three blocks,
\* tagged with the commodity, without its last row.
C6_ConcatMinusLastRow ==
    LongBuilt =>
        df_long = SetCol(DropLastRow(ConcatRows(blocks)), L_commodity, commodity)

\* the rows of the three blocks in block order, as <<block, row>>
BlockRowIds == Flatten([k \in 1..3 |-> [i \in 1..NRows(blocks[k]) |-> <<k, i>>]])
LongLabels == UNION {LabelsOf(blocks[k]) : k \in 1..3}
\* the rows that have a non-null value under every column of the long table
KeptIds ==
    LET ids == BlockRowIds
        labels == LongLabels
    IN  Pick(ids,
             {n \in 1..Len(ids) :
                 LET b == blocks[ids[n][1]]
                 IN  /\ LabelsOf(b) = labels
                     /\ \A j \in 1..NCols(b) : b.rows[ids[n][2]][j] # NaN})
ExpectedLongIds ==
    IF commodity \in {"wheat", "corn"} /\ KeptIds # <<>>
    THEN SubSeq(KeptIds, 1, Len(KeptIds) - 1)
    ELSE KeptIds

\* C6, amended: the long table holds, in block order, the rows of the
\* current, next and outlook blocks that have no null cell, tagged with the
\* commodity; the last of these rows is removed for wheat and corn only,
\* and the three soybean commodities keep it.
C6_CompleteRowsTagged ==
    LongBuilt =>
        LET ids == ExpectedLongIds
            labels == LongLabels
        IN  /\ NRows(df_long) = Len(ids)
            /\ LabelsOf(df_long) = labels \cup {L_commodity}
            /\ \A r \in 1..NRows(df_long) :
                  LET b == blocks[ids[r][1]]
                      i == ids[r][2]
                  IN  /\ df_long.rows[r][ColPos(df_long, L_commodity)] = commodity
                      /\ \A l \in labels :
                            df_long.rows[r][ColPos(df_long, l)] = b.rows[i][ColPos(b, l)]

\* process_soybean_meal keeps the last row of the concatenation
C6_Witness ==
    /\ result = "tuple" /\ commodity = "soybean_meal"
    /\ Len(KeptIds) >= 3 /\ NRows(df_long) = Len(KeptIds)
    /\ NRows(blocks[3]) >= 1
    /\ df_long.rows[NRows(df_long)][1] = blocks[3].rows[NRows(blocks[3])][1]

\* str.contains('Est.') on a label of the report files
HasEstToken(s) == s \in {"2023/24 Est.", "Est. 3/"}
DataLabels(df) ==
    LabelsOf(df) \ {L_country, L_report_date, L_crop_stage, L_commodity}
NoArtifactRows(df) ==
    \A i \in 1..NRows(df) :
        /\ ~HasEstToken(df.rows[i][1])
        /\ \E j \in 1..NCols(df) : df.cols[j] \in DataLabels(df) /\ df.rows[i][j] # NaN

\* C7: no block handed to pivot_df and no long table has a row whose first
\* cell carries the token "Est." or whose data cells are all null, for the
\* current, next and outlook stage alike.
C7_NoEstOrEmptyRows ==
    /\ LongBuilt => NoArtifactRows(df_long)
    /\ "pivot" \in steps => \A k \in 1..3 : NoArtifactRows(pblocks[k])

HasKeys(df) ==
    \A i \in 1..NRows(df) :
        \A l \in {L_country, L_production, L_exports} :
            /\ HasCol(df, l)
            /\ df.rows[i][ColPos(df, l)] \notin {NaN, "nan"}

\* C8: every row handed to pivot_df and every row of the long table has a
\* non-null country, production and exports.
C8_KeyColumnsPresent ==
    /\ LongBuilt => HasKeys(df_long)
    /\ "pivot" \in steps => \A k \in 1..3 : HasKeys(pblocks[k])

HasBothFeeds(sheet) ==
    \E i \in 1..Len(sheet) : {"Domestic\nFeed", "Domestic\nFeed 2/"} \subseteq Elems(sheet[i])
HeadersInPlace ==
    /\ Len(sheet1) > 8 /\ sheet1[8] \in {HeaderGrain, HeaderBothFeeds}
    /\ Len(sheet2) > 8 /\ sheet2[8] \in {HeaderGrain, HeaderBothFeeds}

\* C9: process_wheat and process_corn finish without raising on a report
\* whose header has both "Domestic\nFeed" and "Domestic\nFeed 2/", and
\* their long table has a single domestic_feed column.
C9_BothFeedsProcessed ==
    ( /\ pc = "done" /\ commodity \in {"wheat", "corn"} /\ ~AnySheetUnreadable
      /\ HeadersInPlace
      /\ HasBothFeeds(sheet1) \/ HasBothFeeds(sheet2) ) =>
        /\ result = "tuple"
        /\ Cardinality(ColsOf(df_long, <<"domestic", "feed">>)) = 1

----------------------------------------------------------------------------
(* Properties of a direct call of pivot_df.                                *)

\* the first row of the block with the given country, 0 when there is none
FirstRowOf(country) ==
    IF \E i \in 1..NRows(pv_df) : pv_df.rows[i][1] = country
    THEN CHOOSE i \in 1..NRows(pv_df) :
             /\ pv_df.rows[i][1] = country
             /\ \A k \in 1..(i - 1) : pv_df.rows[k][1] # country
    ELSE 0
PivotName(l, country) ==
    IF l \in Elems(pv_args.pivot_cols)
    THEN <<IF l = L_Production THEN "production" ELSE "exports">>
            \o CommodityTokens(pv_args.commodity)
            \o <<pv_args.crop_stage, SlugOf(country)>>
    ELSE l

\* C10: the table pivot_df returns has, after report_date, one group of
\* columns per entry of countries in list order; the group's values are
\* those of the first row of the block with that country, whatever rows of
\* the same country follow it.
C10_FirstRowInListOrder ==
    (pv_pc = "returned" /\ pv_args.countries # <<>>) =>
        LET cs == pv_args.countries
        IN  /\ NCols(pv_out) = 1 + 2 * Len(cs)
            /\ NRows(pv_out) = IF \E i \in 1..Len(cs) : FirstRowOf(cs[i]) # 0 THEN 1 ELSE 0
            /\ \A i \in 1..Len(cs) : \A j \in 1..2 :
                  /\ pv_out.cols[2 * i - 1 + j] = PivotName(pv_df.cols[2 + j], cs[i])
                  /\ NRows(pv_out) = 1 =>
                        pv_out.rows[1][2 * i - 1 + j] =
                            IF FirstRowOf(cs[i]) = 0 THEN NaN
                            ELSE pv_df.rows[FirstRowOf(cs[i])][2 + j]

\* World is asked for before China, and China has two rows around World's
C10_Witness ==
    /\ pv_pc = "returned"
    /\ pv_args.countries = <<"World", "China">>
    /\ NRows(pv_df) = 3
    /\ pv_df.rows[1][1] = "China" /\ pv_df.rows[2][1] = "World"
    /\ pv_df.rows[3][1] = "China"
    /\ NRows(pv_out) = 1

\* the positions of the report_date columns of the returned table
DateCols == ColsOf(pv_out, L_report_date)
\* the report_date of the first row of the block with the list's first country
FirstCountryDate == pv_df.rows[FirstRowOf(pv_args.countries[1])][ColPos(pv_df, L_report_date)]

\* C11 (as stated): for a non-empty countries list the returned table has
\* exactly one report_date column, it is the first column, and the value in
\* it is the report_date of the first country's row.
C11_DateOfFirstCountry ==
    (pv_pc = "returned" /\ pv_args.countries # <<>>) =>
        /\ DateCols = {1}
        /\ \A i \in 1..NRows(pv_out) :
              /\ FirstRowOf(pv_args.countries[1]) # 0
              /\ pv_out.rows[i][1] = FirstCountryDate

\* C11 (amended): for a non-empty countries list the returned table has
\* exactly one report_date column and it is the first column; its value is
\* the report_date of the first country's first row when the block has a
\* row of that country, and null when only later countries have rows.
C11_DateOfFirstCountryOrNull ==
    (pv_pc = "returned" /\ pv_args.countries # <<>>) =>
        /\ DateCols = {1}
        /\ \A i \in 1..NRows(pv_out) :
              pv_out.rows[i][1] =
                  IF FirstRowOf(pv_args.countries[1]) # 0 THEN FirstCountryDate
                  ELSE NaN

\* two countries with rows of different dates, the second listed first
C11_Witness ==
    /\ pv_pc = "returned"
    /\ pv_args.countries = <<"World", "China">>
    /\ NRows(pv_df) = 2
    /\ pv_df.rows[1][1] = "China" /\ pv_df.rows[2][1] = "World"
    /\ pv_out.rows[1][1] = "2024-06-12"

\* C12: pivot_df called with an empty countries list returns, without
\* raising, a table without rows and without columns (so without a
\* report_date column), whatever the block holds, a block without country
\* and report_date columns included.
C12_EmptyCountriesEmptyTable ==
    (pv_pc # "call" /\ pv_args.countries = <<>>) =>
        /\ pv_pc = "returned"
        /\ NRows(pv_out) = 0
        /\ NCols(pv_out) = 0

\* an empty list on a block of three rows, and on a block without key columns
C12_Witness ==
    /\ pv_pc = "returned"
    /\ pv_args.countries = <<>>
    /\ NRows(pv_df) = MaxPivotRows
    /\ ~HasCol(pv_df, L_country)

\* C13 (as stated): for n >= 1 countries the returned table has
\* 1 + n * len(pivot_cols) columns.
C13_ColumnsPerPivotCol ==
    (pv_pc = "returned" /\ pv_args.countries # <<>>) =>
        NCols(pv_out) = 1 + Len(pv_args.countries) * Len(pv_args.pivot_cols)

\* C13 (amended): for n >= 1 countries the returned table has one
\* report_date column and, per country, one column for every column of the
\* block other than country and report_date, renamed or not; that is
\* 1 + n * len(pivot_cols) when pivot_cols lists exactly those columns.
C13_ColumnsPerBlockColumn ==
    (pv_pc = "returned" /\ pv_args.countries # <<>>) =>
        /\ NCols(pv_out) = 1 + Len(pv_args.countries) * (NCols(pv_df) - 2)
        /\ Len(pv_args.pivot_cols) = NCols(pv_df) - 2 =>
              NCols(pv_out) = 1 + Len(pv_args.countries) * Len(pv_args.pivot_cols)

\* two countries, once with every value column pivoted
C13_Witness ==
    /\ pv_pc = "returned"
    /\ Len(pv_args.countries) = 2
    /\ pv_args.pivot_cols = <<L_Production, L_Exports>>
    /\ NCols(pv_out) = 5

----------------------------------------------------------------------------
(* Properties of two calls of download_release_files in a row.             *)

\* the log entries of a call with one of the given operations
RunEvents(r, ops) == {k \in 1..Len(dl_log) : dl_log[k].run = r /\ dl_log[k].op \in ops}
NeverOnExisting ==
    \A k \in 1..Len(dl_log) : dl_log[k].op \in {"fetch", "write"} => ~dl_log[k].existed
SecondCallIdle ==
    /\ RunEvents(2, {"fetch", "write"}) = {}
    /\ \A q \in DOMAIN dl_disk : dl_disk[q][2] # 2
SecondCallOver == dl_pc = "returned" /\ dl_run = 2

\* C14 (as stated): no file whose target path exists is fetched or written;
\* when every fetch of the first call succeeded, the second call over the
\* same releases fetches nothing, writes nothing and leaves every saved file
\* as it was.
C14_SecondRunIdle ==
    /\ NeverOnExisting
    /\ (SecondCallOver /\ RunEvents(1, {"failed"}) = {}) => SecondCallIdle

\* C14 (amended): no file whose target path exists is fetched or written;
\* when every fetch of the first call succeeded and the first call was not
\* ended by its limit, the second call over the same releases fetches
\* nothing, writes nothing and leaves every saved file as it was.
C14_SecondRunIdleUnlessLimited ==
    /\ NeverOnExisting
    /\ (SecondCallOver /\ RunEvents(1, {"failed", "limit"}) = {}) => SecondCallIdle

\* the first call saved three files, the second call skipped all three
C14_Witness ==
    /\ SecondCallOver
    /\ RunEvents(1, {"failed", "limit"}) = {}
    /\ Cardinality(RunEvents(1, {"write"})) = MaxFiles
    /\ Cardinality(RunEvents(2, {"skip"})) = MaxFiles

----------------------------------------------------------------------------
(* Properties of a prepare_modeling_data call.                             *)

\* the sum of f over the set S
SumOver(S, f) ==
    LET R[T \in SUBSET S] ==
            IF T = {} THEN 0
            ELSE LET x == CHOOSE x \in T : TRUE IN f[x] + R[T \ {x}]
    IN  R[S]
\* the quotes dated from day lo up to, but not on, day hi
QuotesBetween(lo, hi) ==
    {k \in 1..Len(ag_quotes) : lo <= ag_quotes[k].date /\ ag_quotes[k].date < hi}

\* C15: the reports are taken in the order of their dates; every report
\* but the first of that order gets one record, whose price means are the
\* means over exactly the quotes dated from the preceding report's date up
\* to the day before the report's own date, so that a quote of the report's
\* own date is not counted.
C15_WindowBetweenReports ==
    ag_pc = "done" =>
        /\ \A i \in 1..(Len(ag_wasde) - 1) :
              ag_wasde[i].report_date <= ag_wasde[i + 1].report_date
        /\ Len(ag_out) = IF ag_wasde = <<>> THEN 0 ELSE Len(ag_wasde) - 1
        /\ \A i \in 1..Len(ag_out) :
              LET W == QuotesBetween(ag_wasde[i].report_date, ag_wasde[i + 1].report_date)
              IN  /\ ag_out[i].id = ag_wasde[i + 1].id
                  /\ ag_out[i].report_date = ag_wasde[i + 1].report_date
                  /\ ag_out[i].window_start = ag_wasde[i].report_date
                  /\ ag_out[i].window_end + 1 = ag_wasde[i + 1].report_date
                  /\ ag_out[i].corn_quote =
                        <<SumOver(W, [k \in W |-> ag_quotes[k].corn_quote]), Cardinality(W)>>
                  /\ ag_out[i].soybean =
                        <<SumOver(W, [k \in W |-> ag_quotes[k].soybean]), Cardinality(W)>>

\* three reports given out of order; the last one's window holds the quote
\* of the preceding report's day and not the quote of its own day
C15_Witness ==
    /\ ag_pc = "done"
    /\ Len(ag_out) = 2
    /\ ag_out[1].id = 3 /\ ag_out[2].id = 2
    /\ ag_out[1].report_date < ag_out[2].report_date
    /\ Len(ag_quotes) = 2
    /\ ag_quotes[1].date = ag_out[2].window_start
    /\ ag_quotes[2].date = ag_out[2].report_date
    /\ ag_out[2].corn_quote = <<ag_quotes[1].corn_quote, 1>>

----------------------------------------------------------------------------
(* Properties of find_line_v2 and find_line on one grid.                   *)

\* a cell as the report writes it holds a crop year: four digits, '/', two
\* digits, the four digits starting a word
CropYearCell(cell) == cell \in {"2022/23", "2023/24 Est.", "2024/25 Proj.", "2024/25\nProj."}
\* the indices (from 0) of the rows of the grid with such a cell
CropYearRows ==
    {i \in 0..(NRows(lc_df) - 1) :
        \E j \in 1..NCols(lc_df) : CropYearCell(lc_df.rows[i + 1][j])}

C20_LastMatch ==
    lc_pc = {"find_line_v2", "find_line"} =>
        /\ lc_last = IF lc_all = <<>> THEN <<>> ELSE <<lc_all[Len(lc_all)]>>
        /\ lc_last = <<>> <=> CropYearRows = {}
        /\ lc_last # <<>> =>
              /\ lc_last[1] \in CropYearRows
              /\ \A i \in CropYearRows : i <= lc_last[1]

\* three crop-year rows: find_line gives the third
C20_Witness ==
    /\ lc_pc = {"find_line_v2", "find_line"}
    /\ lc_all = <<0, 1, 2>>
    /\ lc_last = <<2>>

----------------------------------------------------------------------------
(* Properties of a run of process_<commodity>: names, shift, slices.       *)

\* C16: the stage suffix and its removal are a round trip: after
\* {f}_{commodity}_{stage_code} has been built for every column f but
\* country and report_date and reset_column_names has stripped it again,
\* every block has the canonical field names it had before, each distinct
\* field under its own name.
C16_SuffixRoundTrip ==
    (pc = "done" /\ result = "tuple" /\ HasSuffixStep(commodity)) =>
        \A k \in 1..3 : pblocks[k].cols = DropCol(blocks[k], L_crop_stage).cols

\* the rows of the primary sheet that hold the given label in the first
\* cell and the given value in the Production cell
SheetRowsWith(label, production) ==
    {q \in 1..Len(sheet1) : sheet1[q][1] = label /\ sheet1[q][3] = production}

\* C17: in every block of a single-sheet commodity (soybean, soybean oil,
\* soybean meal) the first (country) cell of a row is the one that stands
\* on the row of its Production value in the sheet: the first column is not
\* shifted against the values.
C17_NoShiftInSingleSheet ==
    (pc = "segmented" /\ IsSoy(commodity)) =>
        \A k \in 1..3 : \A i \in 1..NRows(blocks[k]) :
            SheetRowsWith(blocks[k].rows[i][1],
                          blocks[k].rows[i][ColPos(blocks[k], L_Production)]) # {}

\* the row ranges the stage blocks are cut from
StageSlices ==
    IF IsSoy(commodity) THEN SoySlices(df_raw, broken_line)
    ELSE <<RowSlice(df_raw, 0, broken_line[1]),
           RowSlice(df_raw, broken_line[1] + 1, NRows(df_raw))>>

\* C18: the row ranges of the stage blocks hold, one after the other, every
\* row below the header that has no crop-year cell, each once, and no row
\* that has one, however many such rows the sheet has.
C18_SlicesCoverAllButBoundaries ==
    pc = "segmented" =>
        Flatten([k \in 1..Len(StageSlices) |-> StageSlices[k].rows])
            = Pick(df_raw.rows, {i \in 1..NRows(df_raw) : ~IsCropYearRow(df_raw.rows[i])})

----------------------------------------------------------------------------
(* Properties of a direct call of a helper.                                *)

\* the rows of the table, inside the range, with a cell that holds
\* "beginning" in any case
HeaderCell(cell) == cell \in {"Beginning\nStocks", "BEGINNING STOCKS"}
HeaderRowsInRange ==
    {i \in hp_range[1]..(hp_range[2] - 1) :
        /\ i < NRows(hp_in)
        /\ \E j \in 1..NCols(hp_in) : HeaderCell(hp_in.rows[i + 1][j])}

\* C21: detect_header_start(grid, min_row, max_row) returns the smallest
\* row index of the range whose row has a cell containing "beginning", and
\* returns the fallback index 7 whenever no row of the range matches, for
\* every grid, also one with fewer than max_row rows.
C21_FirstHeaderOrFallback ==
    hp_call = "detect_header_start" =>
        /\ hp_pc = "returned"
        /\ hp_idx = IF HeaderRowsInRange = {} THEN <<FallbackHeader>>
                    ELSE <<CHOOSE i \in HeaderRowsInRange :
                               \A k \in HeaderRowsInRange : i <= k>>

\* a label lower-cased and stripped
CleanedLabel(l) ==
    CASE l = <<"Production">> -> <<"production">>
      [] l = <<" production ">> -> <<"production">>
      [] l = <<"Exports">> -> <<"exports">>
      [] OTHER -> l
\* the columns of the table passed in that have no column with the same
\* cleaned label on their left
LeftmostCols ==
    {j \in 1..NCols(hp_in) :
        \A k \in 1..(j - 1) : CleanedLabel(hp_in.cols[k]) # CleanedLabel(hp_in.cols[j])}

\* C22: clean_columns returns a table whose labels, lower-cased and
\* stripped, are pairwise distinct: of several columns with the same label
\* only the leftmost is kept, with its values, and the kept columns keep
\* their relative order.
C22_LeftmostOfEachLabel ==
    hp_call = "clean_columns" =>
        /\ \A a, b \in 1..NCols(hp_out) : a < b => hp_out.cols[a] # hp_out.cols[b]
        /\ hp_out.cols = Pick([j \in 1..NCols(hp_in) |-> CleanedLabel(hp_in.cols[j])],
                              LeftmostCols)
        /\ NRows(hp_out) = NRows(hp_in)
        /\ \A i \in 1..NRows(hp_in) : hp_out.rows[i] = Pick(hp_in.rows[i], LeftmostCols)

\* the third column repeats the label of the first one in another case and
\* with blanks around it: the first and the second column are returned
C22_Witness ==
    /\ hp_call = "clean_columns"
    /\ hp_in.cols = <<<<"Production">>, <<"Exports">>, <<" production ">>>>
    /\ hp_in.rows = <<<<"World", "Beginning\nStocks", "1">>, <<"China", "2", "3">>>>
    /\ hp_out.cols = <<<<"production">>, <<"exports">>>>
    /\ hp_out.rows = <<<<"World", "Beginning\nStocks">>, <<"China", "2">>>>

\* C23: the helper stages each return a newly built table and leave the
\* table passed in unchanged: after the call the argument has the same
\* column labels, the same rows and the same values as before.
C23_ArgumentUnchanged ==
    hp_call \in {"clean_columns", "reset_column_names"} =>
        /\ hp_df.cols = hp_in.cols
        /\ hp_df.rows = hp_in.rows

----------------------------------------------------------------------------
(* Properties of the download limit.                                       *)

\* call r has returned
RunOver(r) == r < dl_run \/ (r = dl_run /\ dl_pc = "returned")
\* the <<release, file>> positions of the .xls files
XlsFiles ==
    {p \in (1..Len(dl_releases)) \X (1..MaxFiles) :
        /\ p[2] <= Len(dl_releases[p[1]].files)
        /\ EndsWithXls(dl_releases[p[1]].files[p[2]])}
\* the writes of call r among the first k events
WritesUpTo(r, k) == {m \in RunEvents(r, {"write"}) : m <= k}

\* C24: with a positive limit a call stops as soon as the number of files
\* it has written reaches the limit and never writes more; a file skipped
\* because it exists, a file that is not .xls and a fetch answered with
\* another status than 200 are not written and do not count; with limit
\* None or 0 every .xls file of every release is skipped as existing or
\* fetched.
C24_StopsAtLimit ==
    /\ dl_downloaded = Cardinality(RunEvents(dl_run, {"write"}))
    /\ \A r \in 1..2 :
          /\ dl_limit > 0 => Cardinality(RunEvents(r, {"write"})) <= dl_limit
          /\ \A k \in RunEvents(r, {"write"}) :
                /\ dl_log[k - 1].op = "fetch" /\ dl_log[k - 1].path = dl_log[k].path
                /\ (dl_limit > 0 /\ Cardinality(WritesUpTo(r, k)) = dl_limit) =>
                      /\ RunOver(r)
                      /\ dl_log[k + 1].op = "limit"
                      /\ \A m \in RunEvents(r, {"skip", "fetch", "write", "failed"}) : m <= k
          /\ \A k \in RunEvents(r, {"skip", "failed"}) :
                k = Len(dl_log) \/ dl_log[k + 1].op # "write"
          /\ Cardinality(RunEvents(r, {"write"})) + Cardinality(RunEvents(r, {"failed"}))
                = Cardinality(RunEvents(r, {"fetch"}))
          /\ \A q \in DOMAIN dl_disk : dl_disk[q][2] = r =>
                /\ EndsWithXls(dl_disk[q][1])
                /\ dl_status[r][dl_disk[q][1]] = StatusOK
          /\ (RunOver(r) /\ RunEvents(r, {"limit"}) = {}) =>
                /\ Cardinality(RunEvents(r, {"skip", "fetch"})) = Cardinality(XlsFiles)
                /\ \A p \in XlsFiles :
                      \E k \in RunEvents(r, {"skip", "fetch"}) :
                          dl_log[k].path = SavePath(dl_releases[p[1]],
                                                    dl_releases[p[1]].files[p[2]])
          /\ dl_limit = 0 => RunEvents(r, {"limit"}) = {}

\* limit 2: the first call had a fetch refused, then wrote two files and
\* returned on the second
C24_Witness ==
    /\ dl_limit = 2
    /\ RunOver(1)
    /\ RunEvents(1, {"failed"}) # {}
    /\ Cardinality(RunEvents(1, {"write"})) = 2
    /\ RunEvents(1, {"limit"}) # {}

----------------------------------------------------------------------------
(* Properties of the windows of all reports together.                      *)

\* the reports, as sorted, have strictly increasing dates
StrictlyIncreasing ==
    \A i \in 1..(Len(ag_wasde) - 1) :
        ag_wasde[i].report_date < ag_wasde[i + 1].report_date
\* the quotes inside the window of record i
InWindow(i) ==
    {k \in 1..Len(ag_quotes) :
        /\ ag_out[i].window_start <= ag_quotes[k].date
        /\ ag_quotes[k].date <= ag_out[i].window_end}

\* C25: for n >= 1 reports of strictly increasing dates the result has
\* exactly n - 1 records, one per report except the earliest and in report
\* order; the windows are pairwise disjoint, so a quote is counted in at
\* most one record, and a quote dated from the earliest report date up to
\* the day before the latest report date is counted in exactly one.
C25_WindowsPartitionQuotes ==
    (ag_pc = "done" /\ Len(ag_wasde) >= 1 /\ StrictlyIncreasing) =>
        /\ Len(ag_out) = Len(ag_wasde) - 1
        /\ \A i \in 1..Len(ag_out) :
              /\ ag_out[i].id = ag_wasde[i + 1].id
              /\ ag_out[i].report_date = ag_wasde[i + 1].report_date
              /\ ag_out[i].corn_quote[2] = Cardinality(InWindow(i))
              /\ ag_out[i].soybean[2] = Cardinality(InWindow(i))
        /\ \A i, j \in 1..Len(ag_out) :
              i < j => ag_out[i].window_end < ag_out[j].window_start
        /\ \A k \in 1..Len(ag_quotes) :
              /\ Cardinality({i \in 1..Len(ag_out) : k \in InWindow(i)}) <= 1
              /\ (/\ ag_wasde[1].report_date <= ag_quotes[k].date
                  /\ ag_quotes[k].date < ag_wasde[Len(ag_wasde)].report_date)
                    => Cardinality({i \in 1..Len(ag_out) : k \in InWindow(i)}) = 1

\* three reports of increasing dates and two quotes, of the first and of
\* the second report's day: each record counts one of them
C25_Witness ==
    /\ ag_pc = "done"
    /\ Len(ag_wasde) = 3
    /\ StrictlyIncreasing
    /\ Len(ag_quotes) = 2
    /\ ag_quotes[1].date = ag_wasde[1].report_date
    /\ ag_quotes[2].date = ag_wasde[2].report_date
    /\ Len(ag_out) = 2
    /\ InWindow(1) = {1}
    /\ InWindow(2) = {2}

====
